---- MODULE Spec2Model ----
(***************************************************************************)
(* A model of two parts of the resolver:                                   *)
(*   - crates/uv-requirements/src/unnamed.rs: NamedRequirementsResolver,   *)
(*     which names every unnamed (URL-only) requirement, running one       *)
(*     future per requirement in a FuturesOrdered;                         *)
(*   - crates/uv-resolver/src/resolution.rs: ResolutionGraph::from_state,  *)
(*     which turns the solver's selection and incompatibility store into   *)
(*     a graph of pinned distributions.                                    *)
(***************************************************************************)
EXTENDS Integers, Sequences, FiniteSets, TLC

\* Option::None of a name, and the pending state of a Result.
None == "None"

(***************************************************************************)
(* Part 1: unnamed.rs                                                      *)
(***************************************************************************)

VARIABLES
    requirements,   \* Vec<UnresolvedRequirementSpecification>, the input
    index,          \* InMemoryIndex: VersionId -> name of the Found metadata, or None
    pc,             \* per requirement: position of its future
    source,         \* per requirement: the SourceUrl variant classified at line 127
    out,            \* per requirement: the output of its future once complete
    via,            \* per requirement: the recognizer that produced the name
    completed,      \* futures in the order in which they completed
    collected,      \* the Vec try_collect has accumulated so far
    result,         \* what resolve returned, or pending
    builds,         \* per VersionId: number of build_wheel_metadata calls
    writes          \* per VersionId: number of insert_metadata calls

nameVars == <<requirements, index, pc, source, out, via, completed, collected,
              result, builds, writes>>

\* ---- the variables of ResolutionGraph::from_state (part 2) ----
VARIABLES
    selection,      \* SelectedDependencies: PubGrubPackage -> Version
    editables,      \* Editables: per name, whether editable and its metadata
    distributions,  \* OnceMap<VersionId, MetadataResponse>: the Found metadata
    precise,        \* per URL: what to_precise gives, or None
    bad_urls,       \* the URLs for which Dist::from_url fails
    preferences,    \* per name: what preferences.match_hashes gives for the version
    packages,       \* per name: the VersionsResponse of index.packages, if any
    gpc,            \* "nodes": in the first loop; "edges": in the second; "done"
    order,          \* the packages in the iteration order of `selection`
    cursor,         \* position, in order, of the package of the edge loop
    read,           \* incompatibilities read for the package of the edge loop
    incompatibility, \* the Kind of the incompatibility the inner loop holds
    petgraph_nodes, \* the node weights, by NodeIndex
    petgraph_edges, \* the edges, by EdgeIndex: source, target, weight
    inverse,        \* name -> NodeIndex (0: no entry)
    extras,         \* name -> the extras pushed (empty: no entry)
    diagnostics,    \* Vec<Diagnostic>
    hashes,         \* name -> the digests inserted, if any
    gresult         \* what from_state did: "pending", "ok" (the graph), "err",
                    \* or "panic" (an index into `inverse` without an entry)

graphVars == <<selection, editables, distributions, precise, bad_urls, preferences,
               packages, gpc, order, cursor, read, incompatibility, petgraph_nodes,
               petgraph_edges, inverse, extras, diagnostics, hashes, gresult>>

VARIABLES
    archives,           \* per node of self.petgraph: its metadata in index.distributions
    manifest,           \* the Manifest: requirements, dependencies of the editables
    marker_env,         \* the MarkerEnvironment: the value of every parameter
    mpc,                \* "nodes": in the loop over the nodes; "emit"; "done"
    mcursor,            \* the node the loop over node_indices is at
    seen_marker_values, \* FxHashSet<MarkerParam>
    conjuncts,          \* Vec<MarkerTree>
    mresult             \* what marker_tree did: "pending", "ok", "err" or "panic"

markerVars == <<archives, manifest, marker_env, mpc, mcursor, seen_marker_values,
                conjuncts, mresult>>

VARIABLES
    lcursor,      \* the node the loop of lock is at
    locked_dists, \* Vec<lock::Distribution>
    lresult       \* what lock did: "pending" or "ok"

lockVars == <<lcursor, locked_dists, lresult>>

\* The most requirements one resolve call is given.
MaxReqs == 3

\* ---- the content of a pyproject.toml, as far as PyProjectToml reads it ----
\* file: the file is readable and is TOML; project: the [project] table is
\* absent, lacks `name`, has a `name` that is no PackageName, or has a name;
\* tool: [tool] is absent, has no `poetry`, or has one; poetry_name: the
\* `name` of [tool.poetry].
NoPyProject ==
    [file |-> FALSE, project |-> "absent", tool |-> "absent", poetry_name |-> "absent"]

PyProjectFiles ==
    {NoPyProject} \cup
    { f \in [file : {TRUE},
             project : {"absent", "noname", "badname", "proj"},
             tool : {"absent", "nopoetry", "poetry"},
             poetry_name : {"absent", "badname", "poet"}] :
        f.tool # "poetry" => f.poetry_name = "absent" }

\* toml::from_str::<PyProjectToml>(..).ok(): `Project.name` is a required
\* PackageName and `ToolPoetry.name` an optional one, so a [project] table
\* without a valid name, or an invalid poetry name, fails the whole parse.
PyProjectToml(f) ==
    IF ~f.file \/ f.project \in {"noname", "badname"} \/ f.poetry_name = "badname"
    THEN [ok |-> FALSE, project |-> None, tool |-> FALSE, poetry |-> FALSE, name |-> None]
    ELSE [ok |-> TRUE,
          project |-> IF f.project = "absent" THEN None ELSE f.project,
          tool |-> f.tool # "absent",
          poetry |-> f.tool = "poetry",
          name |-> IF f.tool = "poetry" /\ f.poetry_name # "absent"
                   THEN f.poetry_name ELSE None]

\* ---- URLs ----
\* A URL is the record of what resolve_requirement observes of it:
\*   canonical   the VersionId that VersionId::from_url gives it
\*   ext         the extension of its path
\*   filename_ok whether url.filename() is Ok
\*   wheel       WheelFilename::from_str(filename): the name, or None on a parse error
\*   sdist       SourceDistFilename::parsed_normalized_filename(filename), likewise
\*   scheme      url.scheme()
\*   is_dir, pkg_info, pyproject, setup_cfg   the file system under a file URL
\*   build       what build_wheel_metadata yields for it: the name, or None on failure
\*   pep508_ok   whether Requirement::from_pep508 accepts the named requirement
Schemes == {"file", "http", "https", "git+ssh", "git+https", "git+file", "ftp"}

\* ext.eq_ignore_ascii_case("whl")
eq_ignore_ascii_case(ext, lower) ==
    LET to_lower(s) == CASE s = "WHL" -> "whl" [] s = "Whl" -> "whl" [] OTHER -> s
    IN  to_lower(ext) = lower

\* SchemeClass with every git scheme that Scheme::parse knows taken for a
\* supported one.
SchemeClass_any_git(scheme) ==
    CASE scheme = "file" -> "File"
      [] scheme \in {"http", "https"} -> "Http"
      [] scheme \in {"git+ssh", "git+https", "git+file"} -> "Git"
      [] OTHER -> "Unsupported"

\* Scheme::parse followed by the match of lines 127-250: the scheme class.
SchemeClass(scheme) ==
    CASE scheme = "file" -> "File"
      [] scheme \in {"http", "https"} -> "Http"
      [] scheme \in {"git+ssh", "git+https"} -> "Git"
      [] OTHER -> "Unsupported"

\* VersionId::from_url
VersionId_from_url(url) == url.canonical


\* index.get_metadata(&id), filtered to MetadataResponse::Found (lines 255-261)
get_metadata(idx, id) == idx[id]

\* index.insert_metadata(id, MetadataResponse::Found(archive)) (line 273)
insert_metadata(idx, id, name) == [idx EXCEPT ![id] = name]

\* ---- the recognizers of resolve_requirement, in the order of the code ----
\* lines 137-153: PKG-INFO
pkg_info_name(url) == url.pkg_info

\* lines 155-196: pyproject.toml, PEP 621 first and Poetry second
pyproject_name(url) ==
    LET pyproject == PyProjectToml(url.pyproject)
    IN  IF ~pyproject.ok THEN None
        ELSE IF pyproject.project # None THEN pyproject.project
        ELSE IF pyproject.tool /\ pyproject.poetry /\ pyproject.name # None
             THEN pyproject.name
        ELSE None

\* lines 198-225: setup.cfg, [metadata] name, when it is a PackageName
setup_cfg_name(url) ==
    IF url.setup_cfg \in {"nofile", "noname", "badname"} THEN None ELSE url.setup_cfg

\* lines 135-225: the static metadata of a directory
static_metadata(url) ==
    IF pkg_info_name(url) # None THEN [name |-> pkg_info_name(url), via |-> "pkg_info"]
    ELSE IF pyproject_name(url) # None
         THEN [name |-> pyproject_name(url), via |-> "pyproject"]
    ELSE IF setup_cfg_name(url) # None
         THEN [name |-> setup_cfg_name(url), via |-> "setup_cfg"]
    ELSE [name |-> None, via |-> None]

\* lines 127-250: the SourceUrl variant of a URL whose scheme is supported
SourceUrl(url) ==
    CASE SchemeClass(url.scheme) = "File" -> IF url.is_dir THEN "Directory" ELSE "Path"
      [] SchemeClass(url.scheme) = "Http" -> "Direct"
      [] SchemeClass(url.scheme) = "Git"  -> "Git"
      [] OTHER -> None

Returned(name, v, src) ==
    [kind |-> "ok", name |-> name, via |-> v, source |-> src, err |-> None]
Failed(err) ==
    [kind |-> "err", name |-> None, via |-> None, source |-> None, err |-> err]
Awaiting(src) ==
    [kind |-> "build", name |-> None, via |-> None, source |-> src, err |-> None]

\* fetch_metadata without the lookup in the index.
fetch_metadata_always_build(url, idx) == Awaiting(SourceUrl(url))

\* lines 252-277, up to the await of build_wheel_metadata
fetch_metadata(url, idx) ==
    LET id == VersionId_from_url(url)
    IN  IF get_metadata(idx, id) # None
        THEN Returned(get_metadata(idx, id), "index", SourceUrl(url))
        ELSE Awaiting(SourceUrl(url))

\* resolve_requirement with the source-archive recognizer tried before the
\* wheel recognizer.
resolve_requirement_sdist_first(url, idx) ==
    IF url.filename_ok /\ url.sdist # None
    THEN Returned(url.sdist, "sdist", None)
    ELSE IF eq_ignore_ascii_case(url.ext, "whl")
    THEN IF ~url.filename_ok THEN Failed("filename")
         ELSE IF url.wheel = None THEN Failed("wheel_filename")
         ELSE Returned(url.wheel, "wheel", None)
    ELSE IF SchemeClass(url.scheme) = "Unsupported"
    THEN Failed("unsupported_scheme")
    ELSE IF SchemeClass(url.scheme) = "File" /\ url.is_dir
            /\ static_metadata(url).name # None
    THEN Returned(static_metadata(url).name, static_metadata(url).via, None)
    ELSE fetch_metadata(url, idx)

\* resolve_requirement where a wheel filename that does not parse is passed
\* on to the next recognizers.
resolve_requirement_wheel_falls_through(url, idx) ==
    IF eq_ignore_ascii_case(url.ext, "whl") /\ url.filename_ok /\ url.wheel # None
    THEN Returned(url.wheel, "wheel", None)
    ELSE IF url.filename_ok /\ url.sdist # None
    THEN Returned(url.sdist, "sdist", None)
    ELSE IF SchemeClass(url.scheme) = "Unsupported"
    THEN Failed("unsupported_scheme")
    ELSE IF SchemeClass(url.scheme) = "File" /\ url.is_dir
            /\ static_metadata(url).name # None
    THEN Returned(static_metadata(url).name, static_metadata(url).via, None)
    ELSE fetch_metadata(url, idx)

\* resolve_requirement with the scheme checked before the filename is looked
\* at.
resolve_requirement_scheme_first(url, idx) ==
    IF SchemeClass(url.scheme) = "Unsupported"
    THEN Failed("unsupported_scheme")
    ELSE IF eq_ignore_ascii_case(url.ext, "whl")
    THEN IF ~url.filename_ok THEN Failed("filename")
         ELSE IF url.wheel = None THEN Failed("wheel_filename")
         ELSE Returned(url.wheel, "wheel", None)
    ELSE IF url.filename_ok /\ url.sdist # None
    THEN Returned(url.sdist, "sdist", None)
    ELSE IF SchemeClass(url.scheme) = "File" /\ url.is_dir
            /\ static_metadata(url).name # None
    THEN Returned(static_metadata(url).name, static_metadata(url).via, None)
    ELSE fetch_metadata(url, idx)

\* lines 91-277: resolve_requirement from its start to its first suspension
\* (the await of line 268) or its return
resolve_requirement(url, idx) ==
    IF eq_ignore_ascii_case(url.ext, "whl")
    THEN IF ~url.filename_ok THEN Failed("filename")
         ELSE IF url.wheel = None THEN Failed("wheel_filename")
         ELSE Returned(url.wheel, "wheel", None)
    ELSE IF url.filename_ok /\ url.sdist # None
    THEN Returned(url.sdist, "sdist", None)
    ELSE IF SchemeClass(url.scheme) = "Unsupported"
    THEN Failed("unsupported_scheme")
    ELSE IF SchemeClass(url.scheme) = "File" /\ url.is_dir
            /\ static_metadata(url).name # None
    THEN Returned(static_metadata(url).name, static_metadata(url).via, None)
    ELSE fetch_metadata(url, idx)

\* ---- requirements ----
\* A URL every field of which is the plainest: an https archive that no
\* recognizer names and whose build yields the name "built".
BaseUrl ==
    [raw |-> "https://h/p", canonical |-> "k1", ext |-> "gz", filename_ok |-> TRUE,
     wheel |-> None, sdist |-> None, scheme |-> "https", is_dir |-> FALSE,
     pkg_info |-> None, pyproject |-> NoPyProject, setup_cfg |-> "nofile",
     build |-> "built", pep508_ok |-> TRUE]

NoRequirement ==
    [name |-> None, url |-> BaseUrl, extras |-> None, marker |-> None, origin |-> None]

\* Pep508Requirement that leaves the marker out.
Pep508Requirement_no_marker(name, requirement) ==
    [name |-> name, url |-> requirement.url, extras |-> requirement.extras,
     marker |-> None, origin |-> requirement.origin]

\* pep508_rs::Requirement { name, extras, version_or_url, marker, origin }
Pep508Requirement(name, requirement) ==
    [name |-> name, url |-> requirement.url, extras |-> requirement.extras,
     marker |-> requirement.marker, origin |-> requirement.origin]

Ok(req) == [ok |-> TRUE, req |-> req, err |-> None]
Err(e) == [ok |-> FALSE, req |-> NoRequirement, err |-> e]
NotDone == [ok |-> FALSE, req |-> NoRequirement, err |-> "pending"]

\* Requirement::from_pep508(..)? of lines 74-76
from_pep508(req) == IF req.url.pep508_ok THEN Ok(req) ELSE Err("from_pep508")


\* ---- the inputs ----
\* Every URL: all combinations of what resolve_requirement observes. Only a
\* file URL that is a directory has PKG-INFO, pyproject.toml or setup.cfg.
AllUrls ==
    { u \in [raw : {"u"}, canonical : {"k1"}, ext : {"whl", "WHL", "gz"},
             filename_ok : BOOLEAN, wheel : {None, "wheel_name"},
             sdist : {None, "sdist_name"}, scheme : Schemes, is_dir : BOOLEAN,
             pkg_info : {None, "pkg"}, pyproject : PyProjectFiles,
             setup_cfg : {"nofile", "noname", "cfg"}, build : {None, "built"},
             pep508_ok : BOOLEAN] :
        /\ u.is_dir => u.scheme = "file"
        /\ ~u.is_dir => /\ u.pkg_info = None
                        /\ u.pyproject = NoPyProject
                        /\ u.setup_cfg = "nofile" }

Unnamed(url, ex, marker, origin) ==
    [named |-> FALSE, name |-> None, url |-> url, extras |-> ex,
     marker |-> marker, origin |-> origin]

Named(name, url, ex, marker, origin) ==
    [named |-> TRUE, name |-> name, url |-> url, extras |-> ex,
     marker |-> marker, origin |-> origin]

\* The requirements of the concurrent runs: one already named, one named by
\* its wheel filename, two spellings of one source that has to be built, a
\* git source whose build fails, a URL of an unsupported scheme, and a
\* directory with Poetry metadata.
PoolRequirements ==
    { Named("flask", [BaseUrl EXCEPT !.raw = "flask==2.0", !.canonical = "k3"],
            "e0", "m0", "o0"),
      Unnamed([BaseUrl EXCEPT !.raw = "https://h/anyio-4.3.0-py3-none-any.whl",
                              !.canonical = "k3", !.ext = "whl", !.wheel = "anyio"],
              "e1", "m1", "o1"),
      Unnamed([BaseUrl EXCEPT !.raw = "https://h/src"], "e2", "m2", "o2"),
      Unnamed([BaseUrl EXCEPT !.raw = "https://h/src/"], "e3", "m3", "o3"),
      Unnamed([BaseUrl EXCEPT !.raw = "git+ssh://h/r", !.canonical = "k2",
                              !.scheme = "git+ssh", !.build = None],
              "e4", "m4", "o4"),
      Unnamed([BaseUrl EXCEPT !.raw = "ftp://h/src", !.canonical = "k3",
                              !.scheme = "ftp"],
              "e5", "m5", "o5"),
      Unnamed([BaseUrl EXCEPT !.raw = "file:///d", !.canonical = "k3",
                              !.scheme = "file", !.is_dir = TRUE,
                              !.pyproject = [file |-> TRUE, project |-> "absent",
                                             tool |-> "poetry", poetry_name |-> "poet"]],
              "e6", "m6", "o6") }

VersionIds == {"k1", "k2", "k3"}

Range(seq) == { seq[i] : i \in DOMAIN seq }

Pending == [state |-> "pending", list |-> <<>>, err |-> None]

InitTasks(reqs, idx) ==
    /\ requirements = reqs
    /\ index = idx
    /\ pc = [i \in DOMAIN reqs |-> "start"]
    /\ source = [i \in DOMAIN reqs |-> None]
    /\ out = [i \in DOMAIN reqs |-> NotDone]
    /\ via = [i \in DOMAIN reqs |-> None]
    /\ completed = <<>>
    /\ collected = <<>>
    /\ result = Pending
    /\ builds = [k \in VersionIds |-> 0]
    /\ writes = [k \in VersionIds |-> 0]

\* ---- the futures ----
Complete(i, o, v, src) ==
    /\ pc' = [pc EXCEPT ![i] = "done"]
    /\ out' = [out EXCEPT ![i] = o]
    /\ via' = [via EXCEPT ![i] = v]
    /\ source' = [source EXCEPT ![i] = src]
    /\ completed' = Append(completed, i)

\* lines 71-78: the first poll of the future of requirement i. A named
\* requirement completes at once; an unnamed one runs resolve_requirement
\* until it returns or awaits build_wheel_metadata.
Start(i) ==
    /\ result.state = "pending"
    /\ pc[i] = "start"
    /\ LET entry == requirements[i]
           o == resolve_requirement(entry.url, index)
       IN  IF entry.named
           THEN /\ Complete(i, Ok(Pep508Requirement(entry.name, entry)), "named", None)
                /\ UNCHANGED builds
           ELSE CASE o.kind = "ok" ->
                       /\ Complete(i, from_pep508(Pep508Requirement(o.name, entry)),
                                   o.via, o.source)
                       /\ UNCHANGED builds
                  [] o.kind = "err" ->
                       /\ Complete(i, Err(o.err), None, None)
                       /\ UNCHANGED builds
                  [] o.kind = "build" ->
                       /\ pc' = [pc EXCEPT ![i] = "building"]
                       /\ source' = [source EXCEPT ![i] = o.source]
                       /\ builds' = [builds EXCEPT
                                       ![VersionId_from_url(entry.url)] = @ + 1]
                       /\ UNCHANGED <<out, via, completed>>
    /\ UNCHANGED <<requirements, index, collected, result, writes>>
    /\ UNCHANGED <<graphVars, markerVars, lockVars>>

\* lines 268-285: build_wheel_metadata completes for requirement i; on
\* success the metadata is inserted into the index and the name returned.
BuildDone(i) ==
    /\ result.state = "pending"
    /\ pc[i] = "building"
    /\ LET entry == requirements[i]
           id == VersionId_from_url(entry.url)
           name == entry.url.build
       IN  IF name = None
           THEN /\ Complete(i, Err("build"), None, source[i])
                /\ UNCHANGED <<index, writes>>
           ELSE /\ index' = insert_metadata(index, id, name)
                /\ writes' = [writes EXCEPT ![id] = @ + 1]
                /\ Complete(i, from_pep508(Pep508Requirement(name, entry)),
                            "build", source[i])
    /\ UNCHANGED <<requirements, collected, result, builds>>
    /\ UNCHANGED <<graphVars, markerVars, lockVars>>

\* next_output as a FuturesUnordered would give it: in completion order.
next_output_in_completion_order(done_order, yielded) ==
    IF Len(done_order) > yielded THEN done_order[yielded + 1] ELSE 0

\* FuturesOrdered::poll_next: the output to yield next is that of the next
\* position of the input, once its future is complete; 0 when it is not.
next_output(done_order, yielded) ==
    IF yielded + 1 \in Range(done_order) THEN yielded + 1 ELSE 0

\* Yield with a failed output ending the call with the list collected so far.
Yield_partial ==
    /\ result.state = "pending"
    /\ next_output(completed, Len(collected)) # 0
    /\ LET o == out[next_output(completed, Len(collected))]
       IN  IF o.ok
           THEN /\ collected' = Append(collected, o.req)
                /\ UNCHANGED result
           ELSE /\ result' = [state |-> "ok", list |-> collected, err |-> None]
                /\ UNCHANGED collected
    /\ UNCHANGED <<requirements, index, pc, source, out, via, completed, builds, writes>>
    /\ UNCHANGED <<graphVars, markerVars, lockVars>>

\* Yield with the error of any failed future returned as soon as it is there.
Yield_any_failure ==
    /\ result.state = "pending"
    /\ IF \E i \in DOMAIN requirements : pc[i] = "done" /\ ~out[i].ok
       THEN /\ \E i \in DOMAIN requirements :
                  /\ pc[i] = "done" /\ ~out[i].ok
                  /\ result' = [state |-> "err", list |-> <<>>, err |-> out[i].err]
            /\ UNCHANGED collected
       ELSE /\ next_output(completed, Len(collected)) # 0
            /\ collected' = Append(collected,
                                   out[next_output(completed, Len(collected))].req)
            /\ UNCHANGED result
    /\ UNCHANGED <<requirements, index, pc, source, out, via, completed, builds, writes>>
    /\ UNCHANGED <<graphVars, markerVars, lockVars>>

\* lines 79-81, try_collect over the FuturesOrdered: an Ok output is pushed
\* onto the Vec, an Err output is returned and the other futures dropped.
Yield ==
    /\ result.state = "pending"
    /\ next_output(completed, Len(collected)) # 0
    /\ LET o == out[next_output(completed, Len(collected))]
       IN  IF o.ok
           THEN /\ collected' = Append(collected, o.req)
                /\ UNCHANGED result
           ELSE /\ result' = [state |-> "err", list |-> <<>>, err |-> o.err]
                /\ UNCHANGED collected
    /\ UNCHANGED <<requirements, index, pc, source, out, via, completed, builds, writes>>
    /\ UNCHANGED <<graphVars, markerVars, lockVars>>

\* lines 79-81: the stream has ended, try_collect returns the Vec.
TryCollectDone ==
    /\ result.state = "pending"
    /\ Len(collected) = Len(requirements)
    /\ result' = [state |-> "ok", list |-> collected, err |-> None]
    /\ UNCHANGED <<requirements, index, pc, source, out, via, completed, collected,
                   builds, writes>>
    /\ UNCHANGED <<graphVars, markerVars, lockVars>>

NextNames ==
    \/ \E i \in DOMAIN requirements : Start(i)
    \/ \E i \in DOMAIN requirements : BuildDone(i)
    \/ Yield
    \/ TryCollectDone

(***************************************************************************)
(* Part 2: resolution.rs, ResolutionGraph::from_state                      *)
(***************************************************************************)

\* The most incompatibilities read from one package's list.
MaxIncompats == 2

PackageNames == {"a", "b"}
ExtraNames == {"x", "y"}
Versions == {1, 2}
\* Range<Version>, as the set of the versions it contains
Ranges == {{1}, {1, 2}}

\* PubGrubPackage::Root and PubGrubPackage::Package(name, extra, url)
Root == [root |-> TRUE, name |-> "root", extra |-> None, url |-> None]
Package(name, extra, url) == [root |-> FALSE, name |-> name, extra |-> extra, url |-> url]
IsBase(p) == ~p.root /\ p.extra = None
IsExtraGroup(p) == ~p.root /\ p.extra # None

\* ---- distributions ----
\* pins.get(name, version): the registry distribution pinned for the version
pins_get(name, version) ==
    [kind |-> "registry", name |-> name, version |-> version, url |-> None]

\* Dist::from_editable(name, editable)
Dist_from_editable(name) ==
    [kind |-> "editable", name |-> name, version |-> 0, url |-> "file:///e"]

\* to_precise(url).map_or_else(|| url.clone(), |precise| apply_redirect(url, precise))
redirected(url, prec) == IF prec[url] = None THEN url ELSE prec[url]

\* Dist::from_url(name, url)
Dist_from_url(name, url) ==
    [kind |-> "url", name |-> name, version |-> 0, url |-> url]

\* VersionId::from_registry and VersionId::from_url, as the keys of `distributions`
VersionId_from_registry(name, version) == [name |-> name, version |-> version, url |-> None]
VersionId_url(url) == [name |-> None, version |-> 0, url |-> url]

\* ---- hashes ----
\* HashDigest, by its rank in the order that sort_unstable uses
Digests == {1, 2}

\* Option<list of digests>: None, or Some(digests)
NoDigests == [some |-> FALSE, digests |-> <<>>]
SomeDigests(digests) == [some |-> TRUE, digests |-> digests]

\* digests.sort_unstable()
RECURSIVE insert_sorted(_, _)
insert_sorted(d, sorted) ==
    IF sorted = <<>> \/ d <= Head(sorted)
    THEN <<d>> \o sorted
    ELSE <<Head(sorted)>> \o insert_sorted(d, Tail(sorted))

RECURSIVE sort_unstable(_)

\* sort_unstable left out: the digests in the order they were given.
sort_unstable_skipped(digests) == digests

sort_unstable(digests) ==
    IF digests = <<>> THEN <<>>
    ELSE insert_sorted(Head(digests), sort_unstable(Tail(digests)))

\* index.packages.get(name): no entry, a response that is not Found, or
\* Found(version_maps), each version map by what its hashes(version) returns
NoVersionsResponse == [present |-> FALSE, found |-> FALSE, version_maps |-> <<>>]
NotFoundResponse == [present |-> TRUE, found |-> FALSE, version_maps |-> <<>>]
Found(version_maps) == [present |-> TRUE, found |-> TRUE, version_maps |-> version_maps]

\* Dist::version_id
version_id(dist) ==
    IF dist.kind = "registry"
    THEN VersionId_from_registry(dist.name, dist.version)
    ELSE VersionId_url(dist.url)

\* lines 108-118: the first version map that has hashes for the version
RECURSIVE first_version_map(_)
first_version_map(version_maps) ==
    IF version_maps = <<>> THEN NoDigests
    ELSE IF Head(version_maps).some
    THEN SomeDigests(sort_unstable(Head(version_maps).digests))
    ELSE first_version_map(Tail(version_maps))

\* lines 107-119: the hashes of a registry package in index.packages
registry_hashes(response) ==
    IF response.present /\ response.found
    THEN first_version_map(response.version_maps)
    ELSE NoDigests

\* lines 141-151: the hashes of the Found metadata archive of the pinned
\* distribution in index.distributions
archive_hashes(dists, dist) ==
    IF version_id(dist) \in DOMAIN dists
    THEN SomeDigests(sort_unstable(dists[version_id(dist)].hashes))
    ELSE NoDigests

\* hash_digests where an empty list of the preferences counts as hashes.
hash_digests_empty_preference(preference, url, response, dists, dist) ==
    IF preference.some
    THEN SomeDigests(preference.digests)
    ELSE IF url = None
    THEN registry_hashes(response)
    ELSE archive_hashes(dists, dist)

\* lines 103-120 and 137-152: the digests that are inserted for a base
\* package, if any
hash_digests(preference, url, response, dists, dist) ==
    IF preference.some /\ preference.digests # <<>>
    THEN SomeDigests(preference.digests)
    ELSE IF url = None
    THEN registry_hashes(response)
    ELSE archive_hashes(dists, dist)

\* ---- the node pass ----
\* What one iteration of the first loop leaves: the graph's tables and
\* whether the iteration returned an error.
Tables(nodes, inv, ex, diags, failed) ==
    [nodes |-> nodes, inverse |-> inv, extras |-> ex, diagnostics |-> diags,
     failed |-> failed]

\* pinned_package where the editables are consulted for registry packages only.
pinned_package_url_first(name, version, url, eds, prec, bad) ==
    IF url # None
    THEN [ok |-> ~(redirected(url, prec) \in bad),
          dist |-> Dist_from_url(name, redirected(url, prec))]
    ELSE IF eds[name].editable
    THEN [ok |-> eds[name].dist_ok, dist |-> Dist_from_editable(name)]
    ELSE [ok |-> TRUE, dist |-> pins_get(name, version)]

\* lines 92-101 and 126-135: the pinned distribution of a base package
pinned_package(name, version, url, eds, prec, bad) ==
    IF eds[name].editable
    THEN [ok |-> eds[name].dist_ok, dist |-> Dist_from_editable(name)]
    ELSE IF url = None
    THEN [ok |-> TRUE, dist |-> pins_get(name, version)]
    ELSE [ok |-> ~(redirected(url, prec) \in bad),
          dist |-> Dist_from_url(name, redirected(url, prec))]

\* add_base without the entry in `inverse`.
add_base_no_inverse(t, name, version, url, eds, prec, bad) ==
    LET pinned == pinned_package(name, version, url, eds, prec, bad)
    IN  IF ~pinned.ok
        THEN [t EXCEPT !.failed = TRUE]
        ELSE [t EXCEPT !.nodes = Append(t.nodes, pinned.dist)]

\* lines 92-157: a base package adds one node and its entry in `inverse`
add_base(t, name, version, url, eds, prec, bad) ==
    LET pinned == pinned_package(name, version, url, eds, prec, bad)
    IN  IF ~pinned.ok
        THEN [t EXCEPT !.failed = TRUE]
        ELSE [t EXCEPT !.nodes = Append(t.nodes, pinned.dist),
                       !.inverse = [t.inverse EXCEPT ![name] = Len(t.nodes) + 1]]

\* provides_extras read from the index for an editable package too.
provides_extras_of_index(name, version, url, eds, dists) ==
    IF url = None
    THEN dists[VersionId_from_registry(name, version)].provides_extras
    ELSE dists[VersionId_url(url)].provides_extras

\* lines 162, 178-192, 216, 232-246: the extras that the metadata of the
\* package declares: the editable's metadata, else the metadata of the index
provides_extras(name, version, url, eds, dists) ==
    IF eds[name].editable
    THEN eds[name].provides_extras
    ELSE IF url = None
    THEN dists[VersionId_from_registry(name, version)].provides_extras
    ELSE dists[VersionId_url(url)].provides_extras

\* add_extra with an extra that the metadata does not declare taken for an
\* error.
add_extra_missing_fatal(t, name, extra, version, url, eds, dists, prec, bad) ==
    IF extra \in provides_extras(name, version, url, eds, dists)
    THEN [t EXCEPT !.extras = [t.extras EXCEPT ![name] = Append(@, extra)]]
    ELSE [t EXCEPT !.failed = TRUE]

\* lines 158-264: an extra-group adds no node; its extra is pushed onto
\* extras[name] when the metadata declares it, and else reported missing
add_extra(t, name, extra, version, url, eds, dists, prec, bad) ==
    LET pinned == pinned_package(name, version, url, eds, prec, bad)
    IN  IF extra \in provides_extras(name, version, url, eds, dists)
        THEN [t EXCEPT !.extras = [t.extras EXCEPT ![name] = Append(@, extra)]]
        ELSE IF ~pinned.ok
        THEN [t EXCEPT !.failed = TRUE]
        ELSE [t EXCEPT !.diagnostics =
                  Append(t.diagnostics,
                         [kind |-> "MissingExtra", dist |-> pinned.dist, extra |-> extra])]

\* node_pass with an extra-group given a node of its own.
node_pass_extra_nodes(t, p, version, eds, dists, prec, bad) ==
    IF p.root THEN t
    ELSE IF p.extra = None
    THEN add_base(t, p.name, version, p.url, eds, prec, bad)
    ELSE add_base(add_extra(t, p.name, p.extra, version, p.url, eds, dists, prec, bad),
                  p.name, version, p.url, eds, prec, bad)

\* lines 90-267: one iteration of the first loop
node_pass(t, p, version, eds, dists, prec, bad) ==
    IF p.root THEN t
    ELSE IF p.extra = None
    THEN add_base(t, p.name, version, p.url, eds, prec, bad)
    ELSE add_extra(t, p.name, p.extra, version, p.url, eds, dists, prec, bad)

\* lines 103-120 and 137-152: hashes.insert(name, digests), for a base
\* package whose digests are found
hash_pass(h, p, version, eds, prec, prefs, pkgs, dists) ==
    IF ~IsBase(p) THEN h
    ELSE LET digests == hash_digests(prefs[p.name], p.url, pkgs[p.name], dists,
                                     pinned_package(p.name, version, p.url, eds, prec,
                                                    {}).dist)
         IN  IF digests.some THEN [h EXCEPT ![p.name] = digests] ELSE h

\* lines 90-267: the first loop takes the next package of the selection, in
\* the map's iteration order, which is any order.
NodeStep(p) ==
    /\ gpc = "nodes"
    /\ p \in DOMAIN selection
    /\ p \notin Range(order)
    /\ LET t == node_pass(Tables(petgraph_nodes, inverse, extras, diagnostics, FALSE),
                          p, selection[p], editables, distributions, precise, bad_urls)
       IN  /\ petgraph_nodes' = t.nodes
           /\ inverse' = t.inverse
           /\ extras' = t.extras
           /\ diagnostics' = t.diagnostics
           /\ hashes' = IF t.failed THEN hashes
                        ELSE hash_pass(hashes, p, selection[p], editables, precise,
                                       preferences, packages, distributions)
           /\ order' = Append(order, p)
           /\ IF t.failed
              THEN gpc' = "done" /\ gresult' = "err"
              ELSE /\ gpc' = IF Len(order) + 1 = Cardinality(DOMAIN selection)
                             THEN "edges" ELSE "nodes"
                   /\ UNCHANGED gresult
    /\ UNCHANGED <<selection, editables, distributions, precise, bad_urls,
                   preferences, packages, cursor, read, incompatibility, petgraph_edges>>
    /\ UNCHANGED <<nameVars, markerVars, lockVars>>

\* ---- the edge pass ----
\* Kind::FromDependencyOf(p1, v1, p2, r2), and the kinds that are no dependency
FromDependencyOf(p1, v1, p2, r2) ==
    [kind |-> "FromDependencyOf", p1 |-> p1, v1 |-> v1, p2 |-> p2, r2 |-> r2]
NotRoot == [kind |-> "NotRoot", p1 |-> Root, v1 |-> {1}, p2 |-> Root, r2 |-> {1}]
NoVersions(p, r) == [kind |-> "NoVersions", p1 |-> p, v1 |-> r, p2 |-> p, r2 |-> r]
\* The inner loop holds no incompatibility
NoIncompatibility == [kind |-> "None", p1 |-> Root, v1 |-> {}, p2 |-> Root, r2 |-> {}]

\* state.incompatibilities[package] holds the incompatibilities with a term
\* for the package
Mentions(inc, p) == inc.p1 = p \/ inc.p2 = p

\* update_edge keeping the versions that the old and the new weight share.
update_edge_intersection(edges, a, b, weight) ==
    IF \E k \in DOMAIN edges : edges[k].source = a /\ edges[k].target = b
    THEN [k \in DOMAIN edges |->
            IF edges[k].source = a /\ edges[k].target = b
            THEN [edges[k] EXCEPT !.weight = @ \cap weight] ELSE edges[k]]
    ELSE Append(edges, [source |-> a, target |-> b, weight |-> weight])

\* petgraph.update_edge(a, b, weight): the weight of the edge a -> b is
\* replaced when the edge exists, and the edge added when it does not
update_edge(edges, a, b, weight) ==
    IF \E k \in DOMAIN edges : edges[k].source = a /\ edges[k].target = b
    THEN [k \in DOMAIN edges |->
            IF edges[k].source = a /\ edges[k].target = b
            THEN [edges[k] EXCEPT !.weight = weight] ELSE edges[k]]
    ELSE Append(edges, [source |-> a, target |-> b, weight |-> weight])

\* makes_edge for the dependencies of base packages only.
makes_edge_base_only(inc, package, version) ==
    /\ inc.kind = "FromDependencyOf"
    /\ package = inc.p1
    /\ ~inc.p1.root
    /\ ~inc.p2.root
    /\ inc.p1.extra = None
    /\ inc.p1.name # inc.p2.name
    /\ version \in inc.v1

\* makes_edge without the test that the two packages have different names.
makes_edge_same_name(inc, package, version) ==
    /\ inc.kind = "FromDependencyOf"
    /\ package = inc.p1
    /\ ~inc.p1.root
    /\ ~inc.p2.root
    /\ version \in inc.v1

\* makes_edge without the test that the package of the outer loop is the
\* depending side.
makes_edge_either_side(inc, package, version) ==
    /\ inc.kind = "FromDependencyOf"
    /\ ~inc.p1.root
    /\ ~inc.p2.root
    /\ inc.p1.name # inc.p2.name
    /\ version \in inc.v1

\* makes_edge without the test that the selected version is one of the
\* versions the dependency is of.
makes_edge_any_version(inc, package, version) ==
    /\ inc.kind = "FromDependencyOf"
    /\ package = inc.p1
    /\ ~inc.p1.root
    /\ ~inc.p2.root
    /\ inc.p1.name # inc.p2.name

\* lines 272-309: whether the incompatibility read under `package`, selected
\* at `version`, makes an edge
makes_edge(inc, package, version) ==
    /\ inc.kind = "FromDependencyOf"
    /\ package = inc.p1
    /\ ~inc.p1.root
    /\ ~inc.p2.root
    /\ inc.p1.name # inc.p2.name
    /\ version \in inc.v1

\* lines 300-301: &inverse[self_package] and &inverse[dependency_package];
\* indexing the map with a name that has no entry panics
index_panics(inv, inc, package, version) ==
    /\ makes_edge(inc, package, version)
    /\ (inv[inc.p1.name] = 0 \/ inv[inc.p2.name] = 0)

\* lines 271-310: one iteration of the inner loop
edge_pass(edges, inv, inc, package, version) ==
    IF makes_edge(inc, package, version)
    THEN update_edge(edges, inv[inc.p1.name], inv[inc.p2.name], inc.r2)
    ELSE edges

\* lines 271-310: the inner loop reads the next incompatibility of the list
\* of the current package: any incompatibility of the store with a term for
\* the package, the list being at most MaxIncompats long.
EdgeStep(inc) ==
    /\ gpc = "edges"
    /\ cursor <= Len(order)
    /\ read < MaxIncompats
    /\ Mentions(inc, order[cursor])
    /\ incompatibility' = inc
    /\ read' = read + 1
    /\ IF index_panics(inverse, inc, order[cursor], selection[order[cursor]])
       THEN /\ gpc' = "done"
            /\ gresult' = "panic"
            /\ UNCHANGED petgraph_edges
       ELSE /\ petgraph_edges' = edge_pass(petgraph_edges, inverse, inc, order[cursor],
                                           selection[order[cursor]])
            /\ UNCHANGED <<gpc, gresult>>
    /\ UNCHANGED <<selection, editables, distributions, precise, bad_urls,
                   preferences, packages, order, cursor, petgraph_nodes, inverse,
                   extras, diagnostics, hashes>>
    /\ UNCHANGED <<nameVars, markerVars, lockVars>>

\* line 270: the outer loop moves on to the next package of the selection.
EdgeNext ==
    /\ gpc = "edges"
    /\ cursor <= Len(order)
    /\ cursor' = cursor + 1
    /\ read' = 0
    /\ incompatibility' = NoIncompatibility
    /\ UNCHANGED <<selection, editables, distributions, precise, bad_urls,
                   preferences, packages, gpc, order, petgraph_nodes, petgraph_edges,
                   inverse, extras, diagnostics, hashes, gresult>>
    /\ UNCHANGED <<nameVars, markerVars, lockVars>>

\* lines 313-319: Ok(Self { petgraph, hashes, extras, editables, diagnostics })
ReturnGraph ==
    /\ gpc = "edges"
    /\ cursor > Len(order)
    /\ gpc' = "done"
    /\ gresult' = "ok"
    /\ UNCHANGED <<selection, editables, distributions, precise, bad_urls,
                   preferences, packages, order, cursor, read, incompatibility,
                   petgraph_nodes, petgraph_edges, inverse, extras, diagnostics, hashes>>
    /\ UNCHANGED <<nameVars, markerVars, lockVars>>

(***************************************************************************)
(* Part 3: resolution.rs, ResolutionGraph::marker_tree                     *)
(***************************************************************************)

\* The most nodes of the graph that marker_tree is called on.
MaxMarkerNodes == 2

\* pep508_rs::MarkerValueVersion and MarkerValueString: the parameters of the
\* environment, by type
MarkerValueVersion == {"python_version", "python_full_version"}
MarkerValueString == {"sys_platform", "os_name"}

\* pep508_rs::MarkerValue
MarkerEnvVersion(p) == [kind |-> "MarkerEnvVersion", v |-> p]
MarkerEnvString(p) == [kind |-> "MarkerEnvString", v |-> p]
Extra == [kind |-> "Extra", v |-> ""]
QuotedString(s) == [kind |-> "QuotedString", v |-> s]
NoValue == [kind |-> "None", v |-> ""]

\* pep508_rs::MarkerTree, and the marker of a requirement that has none
Expression(l, op, r) ==
    [tree |-> "Expression", l_value |-> l, operator |-> op, r_value |-> r, exprs |-> <<>>]
And(exprs) ==
    [tree |-> "And", l_value |-> NoValue, operator |-> "", r_value |-> NoValue,
     exprs |-> exprs]
Or(exprs) ==
    [tree |-> "Or", l_value |-> NoValue, operator |-> "", r_value |-> NoValue,
     exprs |-> exprs]
NoMarker ==
    [tree |-> "None", l_value |-> NoValue, operator |-> "", r_value |-> NoValue,
     exprs |-> <<>>]

\* lines 398-401: enum MarkerParam
MarkerParam_Version(p) == [param |-> "Version", v |-> p]
MarkerParam_String(p) == [param |-> "String", v |-> p]

\* lines 419-434: add_marker_value
add_marker_value(value, set) ==
    IF value.kind = "MarkerEnvVersion" THEN set \cup {MarkerParam_Version(value.v)}
    ELSE IF value.kind = "MarkerEnvString" THEN set \cup {MarkerParam_String(value.v)}
    ELSE set

\* lines 404-417: add_marker_params_from_tree
RECURSIVE add_marker_params_from_tree(_, _)

\* add_marker_params_from_tree that looks at the left operand only.
add_marker_params_from_tree_left_only(marker_tree, set) ==
    IF marker_tree.tree = "Expression"
    THEN add_marker_value(marker_tree.l_value, set)
    ELSE set \cup UNION { add_marker_params_from_tree(marker_tree.exprs[i], {}) :
                            i \in DOMAIN marker_tree.exprs }

add_marker_params_from_tree(marker_tree, set) ==
    IF marker_tree.tree = "Expression"
    THEN add_marker_value(marker_tree.r_value, add_marker_value(marker_tree.l_value, set))
    ELSE set \cup UNION { add_marker_params_from_tree(marker_tree.exprs[i], {}) :
                            i \in DOMAIN marker_tree.exprs }

\* A pep508 requirement: its marker, and whether Requirement::from_pep508
\* accepts it (its URL parses)
MarkerRequirement(marker, parsed) == [marker |-> marker, parsed |-> parsed]

\* manifest.apply(requirements): the requirements that the overrides and
\* constraints of the manifest leave; here the manifest has none
manifest_apply(reqs) == reqs

\* lines 457-462 and 472-477: the parameters of the markers of the requirements
add_requirements(reqs, set) ==
    set \cup UNION { IF reqs[i].marker.tree = "None" THEN {}
                     ELSE add_marker_params_from_tree(reqs[i].marker, {}) :
                     i \in DOMAIN reqs }

\* pep440_rs::Version, as its release segments, with its Display and FromStr
VersionTable ==
    { <<<<3, 8>>, "3.8">>, <<<<3, 8, 0>>, "3.8.0">>, <<<<3, 8, 1>>, "3.8.1">>,
      <<<<3, 9>>, "3.9">> }
Version_to_string(version) ==
    (CHOOSE row \in VersionTable : row[1] = version)[2]
Version_from_str(s) ==
    IF \E row \in VersionTable : row[2] = s
    THEN [ok |-> TRUE, version |-> (CHOOSE row \in VersionTable : row[2] = s)[1]]
    ELSE [ok |-> FALSE, version |-> <<>>]

\* The comparison of two versions: trailing zeros do not count
RECURSIVE strip_trailing_zeros(_)
strip_trailing_zeros(version) ==
    IF version # <<>> /\ version[Len(version)] = 0
    THEN strip_trailing_zeros(SubSeq(version, 1, Len(version) - 1))
    ELSE version

\* marker_env.get_version and marker_env.get_string
get_version(env, p) == env.version[p]
get_string(env, p) == env.string[p]

\* The evaluation of an expression on a version: the quoted string is parsed
\* as a version, and an expression whose string does not parse is false
compare_version(version, op, s) ==
    LET parsed == Version_from_str(s)
    IN  /\ parsed.ok
        /\ IF op = "=="
           THEN strip_trailing_zeros(version) = strip_trailing_zeros(parsed.version)
           ELSE strip_trailing_zeros(version) # strip_trailing_zeros(parsed.version)

compare_string(l, op, r) == IF op = "==" THEN l = r ELSE l # r

\* MarkerTree::evaluate(env, extras), with no extra
RECURSIVE evaluate(_, _)
evaluate(marker_tree, env) ==
    IF marker_tree.tree = "And"
    THEN \A i \in DOMAIN marker_tree.exprs : evaluate(marker_tree.exprs[i], env)
    ELSE IF marker_tree.tree = "Or"
    THEN \E i \in DOMAIN marker_tree.exprs : evaluate(marker_tree.exprs[i], env)
    ELSE LET l == marker_tree.l_value
             r == marker_tree.r_value
             op == marker_tree.operator
         IN  IF l.kind = "MarkerEnvVersion" /\ r.kind = "QuotedString"
             THEN compare_version(get_version(env, l.v), op, r.v)
             ELSE IF l.kind = "QuotedString" /\ r.kind = "MarkerEnvVersion"
             THEN compare_version(get_version(env, r.v), op, l.v)
             ELSE IF l.kind = "MarkerEnvString" /\ r.kind = "QuotedString"
             THEN compare_string(get_string(env, l.v), op, r.v)
             ELSE IF l.kind = "QuotedString" /\ r.kind = "MarkerEnvString"
             THEN compare_string(l.v, op, get_string(env, r.v))
             ELSE FALSE

\* marker_expression where every version parameter gets the value of
\* python_version.
marker_expression_python_version(marker_param, env) ==
    IF marker_param.param = "Version"
    THEN Expression(MarkerEnvVersion(marker_param.v), "==",
                    QuotedString(Version_to_string(get_version(env, "python_version"))))
    ELSE Expression(MarkerEnvString(marker_param.v), "==",
                    QuotedString(get_string(env, marker_param.v)))

\* marker_expression where the term of a string parameter quotes the name of
\* the parameter.
marker_expression_quoted_name(marker_param, env) ==
    IF marker_param.param = "Version"
    THEN Expression(MarkerEnvVersion(marker_param.v), "==",
                    QuotedString(Version_to_string(get_version(env, marker_param.v))))
    ELSE Expression(MarkerEnvString(marker_param.v), "==",
                    QuotedString(marker_param.v))

\* lines 487-505: the equality term of a parameter
marker_expression(marker_param, env) ==
    IF marker_param.param = "Version"
    THEN Expression(MarkerEnvVersion(marker_param.v), "==",
                    QuotedString(Version_to_string(get_version(env, marker_param.v))))
    ELSE Expression(MarkerEnvString(marker_param.v), "==",
                    QuotedString(get_string(env, marker_param.v)))

\* lines 437-463: one iteration of the loop over the nodes: the metadata of
\* the node is looked up, its requires_dist converted and the parameters of
\* its markers added.
CollectNode ==
    /\ mpc = "nodes"
    /\ mcursor <= Len(archives)
    /\ LET archive == archives[mcursor]
       IN  IF ~archive.found
           THEN /\ mpc' = "done"
                /\ mresult' = "panic"
                /\ UNCHANGED <<mcursor, seen_marker_values>>
           ELSE IF \E i \in DOMAIN archive.requires_dist : ~archive.requires_dist[i].parsed
           THEN /\ mpc' = "done"
                /\ mresult' = "err"
                /\ UNCHANGED <<mcursor, seen_marker_values>>
           ELSE /\ seen_marker_values' =
                       add_requirements(manifest_apply(archive.requires_dist),
                                        seen_marker_values)
                /\ mcursor' = mcursor + 1
                /\ UNCHANGED <<mpc, mresult>>
    /\ UNCHANGED <<archives, manifest, marker_env, conjuncts>>
    /\ UNCHANGED <<nameVars, graphVars, lockVars>>

\* lines 465-478: the direct requirements of the manifest and the
\* dependencies that its editables declare
CollectDirect ==
    /\ mpc = "nodes"
    /\ mcursor > Len(archives)
    /\ seen_marker_values' =
           add_requirements(manifest_apply(manifest.requirements \o manifest.editables),
                            seen_marker_values)
    /\ mpc' = "emit"
    /\ UNCHANGED <<archives, manifest, marker_env, mcursor, conjuncts, mresult>>
    /\ UNCHANGED <<nameVars, graphVars, lockVars>>

\* lines 483-507: the loop over the set, in the set's iteration order, which
\* is any order, pushes the term of the next parameter.
EmitConjunct(marker_param) ==
    /\ mpc = "emit"
    /\ marker_param \in seen_marker_values
    /\ marker_expression(marker_param, marker_env) \notin Range(conjuncts)
    /\ conjuncts' = Append(conjuncts, marker_expression(marker_param, marker_env))
    /\ UNCHANGED <<archives, manifest, marker_env, mpc, mcursor, seen_marker_values,
                   mresult>>
    /\ UNCHANGED <<nameVars, graphVars, lockVars>>

\* line 508: Ok(MarkerTree::And(conjuncts))
ReturnTree ==
    /\ mpc = "emit"
    /\ \A marker_param \in seen_marker_values :
           marker_expression(marker_param, marker_env) \in Range(conjuncts)
    /\ mpc' = "done"
    /\ mresult' = "ok"
    /\ UNCHANGED <<archives, manifest, marker_env, mcursor, seen_marker_values, conjuncts>>
    /\ UNCHANGED <<nameVars, graphVars, lockVars>>

MarkerParams ==
    { MarkerParam_Version(p) : p \in MarkerValueVersion }
    \cup { MarkerParam_String(p) : p \in MarkerValueString }

NextMarkers ==
    \/ CollectNode
    \/ CollectDirect
    \/ \E marker_param \in MarkerParams : EmitConjunct(marker_param)
    \/ ReturnTree

\* ---- the inputs of marker_tree ----
InitMarkers(ars, man, env) ==
    /\ archives = ars
    /\ manifest = man
    /\ marker_env = env
    /\ mpc = "nodes"
    /\ mcursor = 1
    /\ seen_marker_values = {}
    /\ conjuncts = <<>>
    /\ mresult = "pending"

NoManifest == [requirements |-> <<>>, editables |-> <<>>]
NoMarkerEnvironment ==
    [version |-> [p \in MarkerValueVersion |-> <<3, 8>>],
     string |-> [p \in MarkerValueString |-> "linux"]]

\* Markers: a version parameter on the left, a string parameter on the
\* right, an extra, and a conjunction with a nested disjunction
MarkerOnVersion == Expression(MarkerEnvVersion("python_version"), "!=", QuotedString("3.9"))
MarkerOnString == Expression(QuotedString("linux"), "==", MarkerEnvString("sys_platform"))
MarkerOnExtra == Expression(Extra, "==", QuotedString("x"))
MarkerNested ==
    And(<<Expression(MarkerEnvString("os_name"), "==", QuotedString("nt")),
          Or(<<Expression(MarkerEnvVersion("python_full_version"), "==",
                          QuotedString("3.8.0")),
               MarkerOnExtra>>)>>)

RequirementPool ==
    { MarkerRequirement(m, TRUE) :
        m \in {NoMarker, MarkerOnVersion, MarkerOnString, MarkerOnExtra, MarkerNested} }
    \cup {MarkerRequirement(NoMarker, FALSE)}

\* The metadata of a node: not Found, or Found with its requires_dist
MetadataPool ==
    {[found |-> FALSE, requires_dist |-> <<>>], [found |-> TRUE, requires_dist |-> <<>>]}
    \cup { [found |-> TRUE, requires_dist |-> <<r>>] : r \in RequirementPool }
    \cup {[found |-> TRUE,
           requires_dist |-> <<MarkerRequirement(MarkerOnVersion, TRUE),
                               MarkerRequirement(MarkerNested, TRUE)>>]}

MarkerEnvironments ==
    { [version |-> [p \in MarkerValueVersion |->
                      IF p = "python_version" THEN <<3, 8>> ELSE full],
       string |-> [p \in MarkerValueString |->
                     IF p = "sys_platform" THEN platform ELSE "posix"]] :
        full \in {<<3, 8, 0>>, <<3, 8, 1>>}, platform \in {"linux", "darwin"} }

(***************************************************************************)
(* Part 4: resolution.rs, ResolutionGraph::lock                            *)
(***************************************************************************)

\* lock::Distribution::from_resolved_dist(dist): the identity and the source
\* of the distribution
from_resolved_dist(dist) == dist

\* Lock::new(locked_dists)
Lock_new(dists) == dists

\* petgraph.neighbors(n) reading the edges that arrive at the node.
RECURSIVE neighbors_incoming(_, _)
neighbors_incoming(edges, n) ==
    IF edges = <<>> THEN <<>>
    ELSE (IF edges[Len(edges)].target = n THEN <<edges[Len(edges)].source>> ELSE <<>>)
         \o neighbors_incoming(SubSeq(edges, 1, Len(edges) - 1), n)

\* line 516, self.petgraph.neighbors(node_index): the targets of the edges
\* that leave the node, the edge added last first
RECURSIVE neighbors(_, _)
neighbors(edges, n) ==
    IF edges = <<>> THEN <<>>
    ELSE (IF edges[Len(edges)].source = n THEN <<edges[Len(edges)].target>> ELSE <<>>)
         \o neighbors(SubSeq(edges, 1, Len(edges) - 1), n)

\* lines 514-519: the locked distribution of a node, with a dependency added
\* for each neighbour
locked_dist(nodes, edges, n) ==
    [dist |-> from_resolved_dist(nodes[n]),
     dependencies |-> [k \in 1..Len(neighbors(edges, n)) |->
                         nodes[neighbors(edges, n)[k]]]]

\* lines 513-520: one iteration of the loop over node_indices, on the graph
\* that from_state returned
LockNode ==
    /\ gresult = "ok"
    /\ lresult = "pending"
    /\ lcursor <= Len(petgraph_nodes)
    /\ locked_dists' = Append(locked_dists,
                              locked_dist(petgraph_nodes, petgraph_edges, lcursor))
    /\ lcursor' = lcursor + 1
    /\ UNCHANGED lresult
    /\ UNCHANGED <<nameVars, graphVars, markerVars>>

\* lines 522-523: Ok(Lock::new(locked_dists)?)
LockReturn ==
    /\ gresult = "ok"
    /\ lresult = "pending"
    /\ lcursor > Len(petgraph_nodes)
    /\ locked_dists' = Lock_new(locked_dists)
    /\ lresult' = "ok"
    /\ UNCHANGED lcursor
    /\ UNCHANGED <<nameVars, graphVars, markerVars>>

\* line 512: let mut locked_dists = vec![]
InitLock ==
    /\ lcursor = 1
    /\ locked_dists = <<>>
    /\ lresult = "pending"

\* ---- the inputs of from_state ----
\* A selection from what the solver chose for each name: whether the name is
\* selected, its version, its URL (None for a registry package) and the
\* extras selected with it. The base package and its extra-groups have the
\* same version and URL, and Root is always selected.
SelectionOf(ch) ==
    LET selected ==
            {Root}
            \cup { Package(n, None, ch[n].url) : n \in { m \in PackageNames : ch[m].present } }
            \cup UNION { { Package(n, e, ch[n].url) : e \in ch[n].extras } :
                         n \in { m \in PackageNames : ch[m].present } }
    IN  [p \in selected |-> IF p.root THEN 1 ELSE ch[p.name].version]

Absent == [present |-> FALSE, version |-> 1, url |-> None, extras |-> {}]

NotEditable == [editable |-> FALSE, provides_extras |-> {}, dist_ok |-> TRUE]

\* The keys of `distributions` that from_state reads for a selection
VersionIdsOf(sel) ==
    { IF p.url = None THEN VersionId_from_registry(p.name, sel[p]) ELSE VersionId_url(p.url) :
        p \in { q \in DOMAIN sel : ~q.root } }

\* Every package of the edge pass's inputs: Root, a, its extra-group a[x] and
\* b, all from the registry
EdgePackages ==
    {Root, Package("a", None, None), Package("a", "x", None), Package("b", None, None)}

Incompatibilities ==
    { FromDependencyOf(p1, v1, p2, r2) :
        p1 \in EdgePackages, v1 \in Ranges, p2 \in EdgePackages \ {Root}, r2 \in Ranges }
    \cup {NotRoot}
    \cup { NoVersions(Package(n, None, None), {2}) : n \in PackageNames }

\* The selection is a solution: a dependency of a selected package at its
\* selected version is selected at a version in the dependency's range. A
\* package has no dependency on itself.
Satisfied(inc, sel) ==
    inc.kind = "FromDependencyOf" =>
        /\ inc.p1 # inc.p2
        /\ (inc.p1 \in DOMAIN sel /\ sel[inc.p1] \in inc.v1)
              => (inc.p2 \in DOMAIN sel /\ sel[inc.p2] \in inc.r2)

InitGraph(sel, eds, dists, prec, bad) ==
    /\ selection = sel
    /\ editables = eds
    /\ distributions = dists
    /\ precise = prec
    /\ bad_urls = bad
    /\ gpc = "nodes"
    /\ order = <<>>
    /\ cursor = 1
    /\ read = 0
    /\ incompatibility = NoIncompatibility
    /\ petgraph_nodes = <<>>
    /\ petgraph_edges = <<>>
    /\ inverse = [n \in PackageNames |-> 0]
    /\ extras = [n \in PackageNames |-> <<>>]
    /\ diagnostics = <<>>
    /\ hashes = [n \in PackageNames |-> NoDigests]
    /\ gresult = "pending"

\* The preferences and the index.packages that from_state is given.
InitHashes(prefs, pkgs) ==
    /\ preferences = prefs
    /\ packages = pkgs

NoRedirect == [u \in {"ua", "ub"} |-> None]

\* The store of the edge pass: every incompatibility the selection satisfies.
SatisfiedStore == { inc \in Incompatibilities : Satisfied(inc, selection) }

\* The store where only the node pass is of interest: no dependency but Root's.
RootStore == {NotRoot, NoVersions(Root, {2})}

\* The index of a resolve that is not run, and the inputs of a from_state
\* that is not run: they keep these values.
NoIndex == [k \in VersionIds |-> None]
NoSelection == [p \in {Root} |-> 1]
NoEditables == [n \in PackageNames |-> NotEditable]
NoPreferences == [n \in PackageNames |-> NoDigests]
NoPackages == [n \in PackageNames |-> NoVersionsResponse]
NoDistributions == [vid \in {} |-> [provides_extras |-> {}, hashes |-> <<>>]]

\* Registry packages a, with or without its extra x, and b, selected or not,
\* at any versions, every extra declared.
InitEdges ==
    \E ch \in [PackageNames -> [present : BOOLEAN, version : Versions, url : {None},
                                extras : {{}, {"x"}}]] :
        /\ ch["a"].present
        /\ ch["b"].extras = {}
        /\ \A n \in PackageNames : ~ch[n].present => ch[n] = Absent
        /\ LET sel == SelectionOf(ch)
           IN  InitGraph(sel,
                         [n \in PackageNames |-> NotEditable],
                         [vid \in VersionIdsOf(sel) |->
                            [provides_extras |-> {"x"}, hashes |-> <<>>]],
                         NoRedirect, {})
        /\ InitHashes(NoPreferences, NoPackages)
        /\ InitMarkers(<<>>, NoManifest, NoMarkerEnvironment)
        /\ InitLock
        /\ InitTasks(<<>>, NoIndex)

\* Package a from the registry or from a URL, editable or not, with any of
\* the extras x and y selected and any of them declared; package b from the
\* registry, with or without its extra x; the URL of a redirected or not,
\* and accepted by Dist::from_url or not.
InitNodes ==
    \E cha \in [present : {TRUE}, version : {1}, url : {None, "ua"},
                extras : SUBSET ExtraNames],
       chb \in {Absent, [present |-> TRUE, version |-> 2, url |-> None, extras |-> {}]},
       eda \in [editable : BOOLEAN, provides_extras : {{}, {"x"}}, dist_ok : BOOLEAN],
       provided \in {{}, {"x"}, {"x", "y"}},
       prec \in {None, "ua@sha"},
       bad \in SUBSET {"ua", "ua@sha"} :
        /\ ~eda.editable => eda = NotEditable
        /\ eda.editable => provided = {}
        /\ cha.url = None => prec = None /\ bad = {}
        /\ bad \subseteq {IF prec = None THEN "ua" ELSE prec}
        /\ LET sel == SelectionOf([n \in PackageNames |-> IF n = "a" THEN cha ELSE chb])
           IN  InitGraph(sel,
                         [n \in PackageNames |-> IF n = "a" THEN eda ELSE NotEditable],
                         [vid \in VersionIdsOf(sel) |->
                            [provides_extras |->
                               IF vid.name = "b" THEN {} ELSE provided,
                             hashes |-> <<>>]],
                         [u \in {"ua", "ub"} |-> IF u = "ua" THEN prec ELSE None],
                         bad)
        /\ InitHashes(NoPreferences, NoPackages)
        /\ InitMarkers(<<>>, NoManifest, NoMarkerEnvironment)
        /\ InitLock
        /\ InitTasks(<<>>, NoIndex)

\* The preference's digests and the responses of the provider: for package a,
\* from the registry or from a URL, editable or not, its URL redirected or
\* not, any preference (none, an empty list, an unsorted list), any response
\* of index.packages and any metadata archive of its pinned distribution;
\* the metadata under the URL before the redirect has other hashes. Package
\* b is from the registry, with unsorted hashes in its one version map.
PreferencePool == {NoDigests, SomeDigests(<<>>), SomeDigests(<<2, 1>>)}
ResponsePool ==
    {NoVersionsResponse, NotFoundResponse, Found(<<>>),
     Found(<<NoDigests, SomeDigests(<<2, 1>>)>>),
     Found(<<SomeDigests(<<>>), SomeDigests(<<1>>)>>),
     Found(<<SomeDigests(<<2>>), SomeDigests(<<1>>)>>)}
ArchivePool == {NoDigests, SomeDigests(<<>>), SomeDigests(<<2, 1>>)}

InitDigests ==
    \E cha \in [present : {TRUE}, version : {1}, url : {None, "ua"}, extras : {{}}],
       chb \in {Absent, [present |-> TRUE, version |-> 2, url |-> None, extras |-> {}]},
       editable \in BOOLEAN,
       prec \in {None, "ua@sha"},
       preference \in PreferencePool,
       response \in ResponsePool,
       archive \in ArchivePool :
        /\ cha.url = None => prec = None /\ archive = NoDigests
        /\ cha.url # None => response \in {NoVersionsResponse, Found(<<SomeDigests(<<1>>)>>)}
        /\ LET eds == [n \in PackageNames |->
                         IF n = "a" /\ editable
                         THEN [editable |-> TRUE, provides_extras |-> {}, dist_ok |-> TRUE]
                         ELSE NotEditable]
               prc == [u \in {"ua", "ub"} |-> IF u = "ua" THEN prec ELSE None]
               pinned == VersionId_url(IF editable THEN Dist_from_editable("a").url
                                       ELSE redirected("ua", prc))
               keys == (IF archive.some THEN {pinned} ELSE {})
                       \cup (IF cha.url # None /\ pinned # VersionId_url("ua")
                             THEN {VersionId_url("ua")} ELSE {})
           IN  /\ InitGraph(SelectionOf([n \in PackageNames |-> IF n = "a" THEN cha ELSE chb]),
                            eds,
                            [vid \in keys |->
                               [provides_extras |-> {},
                                hashes |-> IF vid = pinned /\ archive.some
                                           THEN archive.digests ELSE <<1>>]],
                            prc, {})
               /\ InitHashes([n \in PackageNames |-> IF n = "a" THEN preference ELSE NoDigests],
                             [n \in PackageNames |->
                                IF n = "a" THEN response ELSE Found(<<SomeDigests(<<2, 1>>)>>)])
               /\ InitMarkers(<<>>, NoManifest, NoMarkerEnvironment)
               /\ InitLock
        /\ InitTasks(<<>>, NoIndex)

\* NamedRequirementsResolver::new: up to MaxReqs requirements of the pool,
\* and an index that is empty or already holds the metadata of the source k1.
InitNames ==
    \E n \in 0..MaxReqs :
        \E reqs \in [1..n -> PoolRequirements] :
            \E found \in {None, "built"} :
                /\ InitTasks(reqs, [k \in VersionIds |-> IF k = "k1" THEN found ELSE None])
                /\ InitGraph(NoSelection, NoEditables, NoDistributions, NoRedirect, {})
                /\ InitHashes(NoPreferences, NoPackages)
                /\ InitMarkers(<<>>, NoManifest, NoMarkerEnvironment)
                /\ InitLock

\* One unnamed requirement, of any URL.
InitRecognizers ==
    \E u \in AllUrls :
        \E found \in {None, u.build} :
            /\ InitTasks(<<Unnamed(u, "e1", "m1", "o1")>>,
                         [k \in VersionIds |-> IF k = "k1" THEN found ELSE None])
            /\ InitGraph(NoSelection, NoEditables, NoDistributions, NoRedirect, {})
            /\ InitHashes(NoPreferences, NoPackages)
            /\ InitMarkers(<<>>, NoManifest, NoMarkerEnvironment)
            /\ InitLock

\* A graph of up to MaxMarkerNodes nodes with any metadata of the pool, a
\* manifest with or without a direct requirement and a dependency of an
\* editable, and any of the environments.
InitMarkerTree ==
    \E n \in 0..MaxMarkerNodes :
        \E ars \in [1..n -> MetadataPool],
           direct \in {<<>>, <<MarkerRequirement(MarkerOnString, TRUE)>>,
                       <<MarkerRequirement(MarkerNested, TRUE)>>},
           declared \in {<<>>, <<MarkerRequirement(MarkerOnVersion, TRUE)>>},
           env \in MarkerEnvironments :
            /\ InitMarkers(ars, [requirements |-> direct, editables |-> declared], env)
            /\ InitLock
            /\ InitTasks(<<>>, NoIndex)
            /\ InitGraph(NoSelection, NoEditables, NoDistributions, NoRedirect, {})
            /\ InitHashes(NoPreferences, NoPackages)

\* ---- the specifications ----
vars == <<nameVars, graphVars, markerVars, lockVars>>

\* from_state over a store of every incompatibility the selection satisfies
NextEdges ==
    \/ \E p \in DOMAIN selection : NodeStep(p)
    \/ \E inc \in SatisfiedStore : EdgeStep(inc)
    \/ EdgeNext
    \/ ReturnGraph

\* from_state over that store, and lock on the graph it returns
NextLock ==
    \/ \E p \in DOMAIN selection : NodeStep(p)
    \/ \E inc \in SatisfiedStore : EdgeStep(inc)
    \/ EdgeNext
    \/ ReturnGraph
    \/ LockNode
    \/ LockReturn

\* from_state over a store without dependencies
NextNodes ==
    \/ \E p \in DOMAIN selection : NodeStep(p)
    \/ \E inc \in RootStore : EdgeStep(inc)
    \/ EdgeNext
    \/ ReturnGraph

SpecNames == InitNames /\ [][NextNames]_vars
SpecRecognizers == InitRecognizers /\ [][NextNames]_vars
SpecEdges == InitEdges /\ [][NextEdges]_vars
SpecNodes == InitNodes /\ [][NextNodes]_vars
SpecDigests == InitDigests /\ [][NextNodes]_vars
SpecMarkers == InitMarkerTree /\ [][NextMarkers]_vars
SpecLock == InitEdges /\ [][NextLock]_vars

(***************************************************************************)
(* Properties of NamedRequirementsResolver                                 *)
(***************************************************************************)

IsUnnamed(i) == ~requirements[i].named
UrlOf(i) == requirements[i].url
KeyOf(i) == VersionId_from_url(requirements[i].url)

\* C1: when resolve returns Ok, the list has one requirement per input, at the
\* input's position whatever the order in which the futures completed: entry i
\* carries the url, extras, marker and origin of input i and a name, and an
\* already-named input keeps its name.
C1_OrderedFanOut ==
    result.state = "ok" =>
        /\ Len(result.list) = Len(requirements)
        /\ \A i \in DOMAIN requirements :
            /\ result.list[i].url = requirements[i].url
            /\ result.list[i].extras = requirements[i].extras
            /\ result.list[i].marker = requirements[i].marker
            /\ result.list[i].origin = requirements[i].origin
            /\ result.list[i].name # None
            /\ requirements[i].named => result.list[i].name = requirements[i].name

\* A successful call in which a later requirement completed before an earlier
\* one (which had to be built) and one input was already named.
C1_Witness ==
    /\ result.state = "ok"
    /\ Len(completed) >= 2
    /\ \E a, b \in DOMAIN completed :
        a < b /\ completed[a] > completed[b] /\ via[completed[b]] = "build"
    /\ \E i \in DOMAIN requirements : requirements[i].named

\* What each recognizer yields for a URL, taken alone.
WheelMatch(u) ==
    IF u.ext \in {"whl", "WHL"} /\ u.filename_ok THEN u.wheel ELSE None
SdistMatch(u) == IF u.filename_ok THEN u.sdist ELSE None
IsDirectory(u) == u.scheme = "file" /\ u.is_dir
PkgInfoMatch(u) == IF IsDirectory(u) THEN u.pkg_info ELSE None
PyprojectMatch(u) == IF IsDirectory(u) THEN pyproject_name(u) ELSE None
SetupCfgMatch(u) ==
    IF IsDirectory(u) /\ u.setup_cfg = "cfg" THEN u.setup_cfg ELSE None

\* The recognizers in the order the specification gives them.
RecognizerOrder(u) ==
    << WheelMatch(u), SdistMatch(u), PkgInfoMatch(u), PyprojectMatch(u), SetupCfgMatch(u) >>

FirstMatch(u) ==
    LET ms == RecognizerOrder(u)
        hits == { k \in DOMAIN ms : ms[k] # None }
    IN  IF hits = {} THEN None
        ELSE ms[CHOOSE k \in hits : \A j \in hits : k <= j]

\* C2: the name an unnamed requirement gets is the one of the first recognizer,
\* in the order wheel filename, source-archive filename, PKG-INFO,
\* pyproject.toml, setup.cfg, that yields one; the metadata (index or build) is
\* used, and a build requested, only when none of them yields a name.
C2_FirstRecognizerWins ==
    \A i \in DOMAIN requirements :
        IsUnnamed(i) =>
            /\ (pc[i] = "done" /\ out[i].ok /\ FirstMatch(UrlOf(i)) # None)
                  => out[i].req.name = FirstMatch(UrlOf(i))
            /\ (pc[i] = "done" /\ out[i].ok /\ FirstMatch(UrlOf(i)) = None)
                  => /\ via[i] \in {"build", "index"}
                     /\ out[i].req.name = index[KeyOf(i)]
            /\ (pc[i] = "building" \/ via[i] = "build")
                  => FirstMatch(UrlOf(i)) = None
            /\ FirstMatch(UrlOf(i)) # None => builds[KeyOf(i)] = 0

\* A requirement named by its source-archive filename although its directory
\* also has PKG-INFO, pyproject.toml and setup.cfg names.
C2_Witness ==
    \E i \in DOMAIN requirements :
        /\ pc[i] = "done" /\ out[i].ok /\ via[i] = "sdist"
        /\ PkgInfoMatch(UrlOf(i)) # None
        /\ PyprojectMatch(UrlOf(i)) # None
        /\ SetupCfgMatch(UrlOf(i)) # None

\* C3: during one resolve call build_wheel_metadata is invoked at most once
\* per VersionId and the index entry of a VersionId is written at most once.
C3_BuildOncePerKey ==
    \A k \in VersionIds : builds[k] <= 1 /\ writes[k] <= 1

\* C4: once the fallback step has succeeded for a requirement, the index holds
\* metadata under the VersionId of its URL and the returned name is the name
\* of that metadata; and a requirement that reaches the fallback step while
\* the index already holds metadata for its VersionId returns that name at
\* once, requests no build and leaves the index unchanged.
C4_Step ==
    \A i \in DOMAIN requirements :
        /\ (pc'[i] = "done" /\ out'[i].ok /\ via'[i] \in {"build", "index"})
              => /\ index'[KeyOf(i)] # None
                 /\ out'[i].req.name = index'[KeyOf(i)]
        /\ (pc[i] = "start" /\ pc'[i] # "start" /\ source'[i] # None
              /\ index[KeyOf(i)] # None)
              => /\ pc'[i] = "done"
                 /\ via'[i] = "index"
                 /\ out'[i].ok => out'[i].req.name = index[KeyOf(i)]
                 /\ index' = index
                 /\ builds' = builds
                 /\ writes' = writes

C4_FallbackCachesMetadata == [][C4_Step]_vars

\* Two requirements for one source: the first was built, which wrote the
\* index; the second found the entry and was named from it.
C4_Witness ==
    \E i, j \in DOMAIN requirements :
        /\ i # j /\ KeyOf(i) = KeyOf(j)
        /\ pc[i] = "done" /\ via[i] = "build" /\ out[i].ok
        /\ pc[j] = "done" /\ via[j] = "index" /\ out[j].ok
        /\ writes[KeyOf(i)] = 1

Failures == { i \in DOMAIN requirements : pc[i] = "done" /\ ~out[i].ok }

\* C5: resolve never returns a list when a requirement has failed: a returned
\* list means every requirement was named, a returned error is the error of
\* a failed requirement, and while a requirement has failed and resolve has
\* not returned, resolve can still take a step.
C5_FailureFailsTheCall ==
    /\ result.state = "ok" => Failures = {}
    /\ result.state = "err" =>
          \E i \in Failures : out[i].err = result.err
    /\ (Failures # {} /\ result.state = "pending") => ENABLED NextNames

\* resolve returned an error after it had collected named requirements.
C5_Witness ==
    /\ result.state = "err"
    /\ Len(collected) >= 1
    /\ \E i \in DOMAIN requirements : pc[i] = "done" /\ out[i].ok /\ via[i] = "build"

\* No filename or static-metadata recognizer names the URL.
ReachesFallback(u) == FirstMatch(u) = None /\ ~(u.ext \in {"whl", "WHL"})

ExpectedSource(u) ==
    CASE u.scheme = "file" /\ u.is_dir -> "Directory"
      [] u.scheme = "file" /\ ~u.is_dir -> "Path"
      [] u.scheme \in {"http", "https"} -> "Direct"
      [] u.scheme \in {"git+ssh", "git+https"} -> "Git"
      [] OTHER -> None

\* C6: the step in which an unnamed requirement reaches the fallback
\* classifies its URL by scheme (file and directory: Directory, file
\* otherwise: Path, http/https: Direct, git+ssh/git+https: Git), and for any
\* other scheme fails with the unsupported-scheme error, requesting no build
\* and leaving the index unchanged.
C6_Step ==
    \A i \in DOMAIN requirements :
        (IsUnnamed(i) /\ pc[i] = "start" /\ pc'[i] # "start"
           /\ ReachesFallback(UrlOf(i)))
        => IF ExpectedSource(UrlOf(i)) # None
           THEN /\ source'[i] = ExpectedSource(UrlOf(i))
                /\ out'[i].err # "unsupported_scheme"
           ELSE /\ pc'[i] = "done"
                /\ out'[i] = Err("unsupported_scheme")
                /\ source'[i] = None
                /\ index' = index
                /\ builds' = builds
                /\ writes' = writes

C6_SchemeClassification == [][C6_Step]_vars

\* A git+file URL, which Scheme::parse knows, was refused as unsupported.
C6_Witness ==
    \E i \in DOMAIN requirements :
        /\ UrlOf(i).scheme = "git+file"
        /\ pc[i] = "done"
        /\ out[i] = Err("unsupported_scheme")

\* C7: for a directory without usable PKG-INFO the pyproject.toml recognizer
\* yields project.name when pyproject.toml has one, and otherwise
\* tool.poetry.name when it has one.
C7_PyprojectName ==
    \A i \in DOMAIN requirements :
        LET u == UrlOf(i)
            f == u.pyproject
        IN  (/\ IsUnnamed(i) /\ pc[i] = "done"
             /\ WheelMatch(u) = None /\ SdistMatch(u) = None
             /\ ~(u.ext \in {"whl", "WHL"})
             /\ IsDirectory(u) /\ u.pkg_info = None
             /\ u.pep508_ok /\ f.file)
            => /\ f.project = "proj" => (out[i].ok /\ out[i].req.name = "proj")
               /\ (f.project \in {"absent", "noname"} /\ f.tool = "poetry"
                     /\ f.poetry_name = "poet")
                    => (out[i].ok /\ out[i].req.name = "poet")


\* The path of the URL has the extension whl, in any letter case, and a
\* filename that is no wheel filename.
BadWheelFilename(u) ==
    /\ u.ext \in {"whl", "WHL", "Whl"}
    /\ u.filename_ok
    /\ u.wheel = None

\* C24: an unnamed requirement whose URL path has the extension whl, in any
\* letter case, and a filename that does not parse as a wheel filename fails
\* with the parse error: no other recognizer names it, no source is
\* classified and no build is requested.
C24_WheelParseErrorIsFatal ==
    \A i \in DOMAIN requirements :
        (IsUnnamed(i) /\ BadWheelFilename(UrlOf(i)))
            => /\ pc[i] \in {"start", "done"}
               /\ pc[i] = "done" =>
                     /\ out[i] = Err("wheel_filename")
                     /\ via[i] = None
                     /\ source[i] = None
               /\ builds[KeyOf(i)] = 0

\* The parse error of a URL ending in .WHL whose filename would parse as a
\* source archive and whose directory has a PKG-INFO.
C24_Witness ==
    \E i \in DOMAIN requirements :
        /\ IsUnnamed(i)
        /\ UrlOf(i).ext = "WHL"
        /\ UrlOf(i).sdist # None
        /\ UrlOf(i).pkg_info # None
        /\ pc[i] = "done"
        /\ out[i] = Err("wheel_filename")

\* The position in `completed` at which the future of requirement i completed
CompletedAt(i) == CHOOSE k \in DOMAIN completed : completed[k] = i

\* C25: the error that resolve returns is that of the failed requirement at
\* the lowest position of the input, and it is returned only when every
\* requirement before that position has completed successfully and has been
\* collected.
C25_FirstErrorInInputOrder ==
    result.state = "err" =>
        \E j \in Failures :
            /\ result.err = out[j].err
            /\ \A i \in Failures : j <= i
            /\ \A i \in 1..(j - 1) : pc[i] = "done" /\ out[i].ok
            /\ Len(collected) = j - 1

\* resolve returned the error of a requirement whose failure came later in
\* time than the failure, with another error, of a requirement after it.
C25_Witness ==
    /\ result.state = "err"
    /\ \E i, j \in Failures :
           /\ i < j
           /\ CompletedAt(j) < CompletedAt(i)
           /\ out[i].err # out[j].err
           /\ result.err = out[i].err

\* C26: the requirement that resolve_requirement returns for an unnamed
\* requirement has the url, extras, marker and origin of its input and a
\* name, whichever recognizer, the index or the build supplied the name.
C26_OnlyNameAdded ==
    \A i \in DOMAIN requirements :
        (IsUnnamed(i) /\ pc[i] = "done" /\ out[i].ok)
            => /\ out[i].req.url = requirements[i].url
               /\ out[i].req.extras = requirements[i].extras
               /\ out[i].req.marker = requirements[i].marker
               /\ out[i].req.origin = requirements[i].origin
               /\ out[i].req.name # None
               /\ via[i] \in {"wheel", "sdist", "pkg_info", "pyproject", "setup_cfg",
                              "index", "build"}

\* A requirement named by the build of its source, with its marker, extras
\* and origin.
C26_Witness ==
    \E i \in DOMAIN requirements :
        /\ IsUnnamed(i)
        /\ pc[i] = "done"
        /\ out[i].ok
        /\ via[i] = "build"
        /\ out[i].req.marker = "m1"
        /\ out[i].req.extras = "e1"
        /\ out[i].req.origin = "o1"

\* The name that the filename of a URL gives: of the wheel filename when the
\* extension is whl, of the source-archive filename otherwise
FilenameName(u) ==
    IF ~u.filename_ok THEN None
    ELSE IF u.ext \in {"whl", "WHL", "Whl"} THEN u.wheel
    ELSE u.sdist

\* C27: an unnamed requirement whose URL has a scheme other than file, http,
\* https, git+ssh and git+https and whose filename parses as a wheel or
\* source-archive filename is named from the filename; resolve_requirement
\* raises no unsupported-scheme error for it, classifies no source and
\* requests no build.
C27_FilenameBeforeScheme ==
    \A i \in DOMAIN requirements :
        (/\ IsUnnamed(i)
         /\ UrlOf(i).scheme \notin {"file", "http", "https", "git+ssh", "git+https"}
         /\ FilenameName(UrlOf(i)) # None
         /\ pc[i] # "start")
            => /\ pc[i] = "done"
               /\ out[i].err # "unsupported_scheme"
               /\ via[i] \in {"wheel", "sdist"}
               /\ UrlOf(i).pep508_ok =>
                     out[i] = Ok(Pep508Requirement(FilenameName(UrlOf(i)), requirements[i]))
               /\ source[i] = None
               /\ builds[KeyOf(i)] = 0

\* An ftp URL named by its source-archive filename.
C27_Witness ==
    \E i \in DOMAIN requirements :
        /\ IsUnnamed(i)
        /\ UrlOf(i).scheme = "ftp"
        /\ pc[i] = "done"
        /\ out[i].ok
        /\ via[i] = "sdist"
        /\ out[i].req.name = UrlOf(i).sdist

(***************************************************************************)
(* Properties of ResolutionGraph::from_state                               *)
(***************************************************************************)

BasePackages == { p \in DOMAIN selection : IsBase(p) }
ExtraGroups == { p \in DOMAIN selection : IsExtraGroup(p) }

\* The version the selection gives the base package of a name
VersionOfName(name) ==
    selection[CHOOSE p \in BasePackages : p.name = name]

\* C8: every edge of the graph, labelled with range R, ends in a node whose
\* package is selected at a version in R.
C8_ConstraintSoundness ==
    \A k \in DOMAIN petgraph_edges :
        LET e == petgraph_edges[k]
        IN  /\ e.target \in DOMAIN petgraph_nodes
            /\ \E p \in BasePackages : p.name = petgraph_nodes[e.target].name
            /\ VersionOfName(petgraph_nodes[e.target].name) \in e.weight

\* from_state returned a graph with the edges a -> b and b -> a, one of them
\* with a range that excludes a version.
C8_Witness ==
    /\ gresult = "ok"
    /\ Len(petgraph_edges) = 2
    /\ \E k \in DOMAIN petgraph_edges : petgraph_edges[k].weight = {1}

\* C9: the graph from_state returns has exactly one node for every base
\* package of the selection and no other node: Root and the extra-groups
\* have none, and no two nodes have the same name and URL.
C9_OneNodePerBasePackage ==
    gresult = "ok" =>
        /\ Len(petgraph_nodes) = Cardinality(BasePackages)
        /\ \A p \in BasePackages :
              Cardinality({ i \in DOMAIN petgraph_nodes :
                              petgraph_nodes[i].name = p.name }) = 1
        /\ \A i \in DOMAIN petgraph_nodes :
              \E p \in BasePackages : p.name = petgraph_nodes[i].name
        /\ \A i, j \in DOMAIN petgraph_nodes :
              (petgraph_nodes[i].name = petgraph_nodes[j].name
                 /\ petgraph_nodes[i].url = petgraph_nodes[j].url) => i = j

\* A graph of two nodes from a selection of Root, two base packages and two
\* extra-groups.
C9_Witness ==
    /\ gresult = "ok"
    /\ Len(petgraph_nodes) = 2
    /\ Cardinality(ExtraGroups) = 2
    /\ Root \in DOMAIN selection

\* The extras that the metadata of the base distribution of a name declares
Declared(p) ==
    IF editables[p.name].editable
    THEN editables[p.name].provides_extras
    ELSE distributions[IF p.url = None
                       THEN VersionId_from_registry(p.name, selection[p])
                       ELSE VersionId_url(p.url)].provides_extras

Occurrences(seq, x) == Cardinality({ k \in DOMAIN seq : seq[k] = x })

MissingExtras(p) ==
    { k \in DOMAIN diagnostics :
        /\ diagnostics[k].kind = "MissingExtra"
        /\ diagnostics[k].dist.name = p.name
        /\ diagnostics[k].extra = p.extra }

\* C10: in the graph from_state returns, every extra-group of the selection
\* whose extra the metadata of the base distribution declares (the
\* editable's metadata for an editable, else the metadata of the index) is
\* once in extras[name] and has no diagnostic, and every other extra-group
\* has one MissingExtra diagnostic and is not in extras[name]; extras and
\* diagnostics hold nothing else, so every entry of extras[name] is declared.
C10_ExtraDeclaredOrMissing ==
    gresult = "ok" =>
        /\ \A p \in ExtraGroups :
              IF p.extra \in Declared(p)
              THEN Occurrences(extras[p.name], p.extra) = 1 /\ MissingExtras(p) = {}
              ELSE Occurrences(extras[p.name], p.extra) = 0
                   /\ Cardinality(MissingExtras(p)) = 1
        /\ \A n \in PackageNames : \A k \in DOMAIN extras[n] :
              \E p \in ExtraGroups :
                  p.name = n /\ p.extra = extras[n][k] /\ p.extra \in Declared(p)
        /\ \A k \in DOMAIN diagnostics : \E p \in ExtraGroups : k \in MissingExtras(p)

\* An editable package with two extras selected, one declared by the
\* editable's metadata and one not.
C10_Witness ==
    /\ gresult = "ok"
    /\ editables["a"].editable
    /\ extras["a"] = <<"x">>
    /\ Len(diagnostics) = 1
    /\ diagnostics[1].extra = "y"
    /\ diagnostics[1].dist.kind = "editable"

\* Dist::from_editable or Dist::from_url fails for the pinned distribution of
\* a base package
DistFails(p) ==
    IF editables[p.name].editable
    THEN ~editables[p.name].dist_ok
    ELSE p.url # None /\ redirected(p.url, precise) \in bad_urls

\* C11: from_state returns an error exactly when the pinned distribution of a
\* selected base package cannot be constructed, and never because an extra
\* is not declared: the graph it returns otherwise has, for every
\* extra-group whose extra is not declared, the node of the base package and
\* exactly one MissingExtra diagnostic; and from_state always comes to return.
C11_MissingExtraNonFatal ==
    /\ gresult # "panic"
    /\ gpc = "done" =>
          (gresult = "err" <=> \E p \in BasePackages : DistFails(p))
    /\ gresult = "ok" =>
          \A p \in ExtraGroups :
              p.extra \notin Declared(p) =>
                  /\ \E i \in DOMAIN petgraph_nodes : petgraph_nodes[i].name = p.name
                  /\ Cardinality(MissingExtras(p)) = 1
    /\ gpc # "done" => ENABLED NextNodes

\* A graph returned for a URL package with two extras selected that its
\* metadata does not declare: its node and two diagnostics.
C11_Witness ==
    /\ gresult = "ok"
    /\ ~editables["a"].editable
    /\ Len(diagnostics) = 2
    /\ \E i \in DOMAIN petgraph_nodes :
          petgraph_nodes[i].name = "a" /\ petgraph_nodes[i].kind = "url"

\* The inner loop has just read, under the package of the outer loop, a
\* dependency of that package at its selected version on a package of
\* another name.
ApplicableRead ==
    /\ gpc = "edges"
    /\ cursor <= Len(order)
    /\ incompatibility.kind = "FromDependencyOf"
    /\ incompatibility.p1 = order[cursor]
    /\ ~incompatibility.p1.root
    /\ ~incompatibility.p2.root
    /\ incompatibility.p1.name # incompatibility.p2.name
    /\ selection[order[cursor]] \in incompatibility.v1

\* The graph has the edge from the node of one name to the node of another,
\* labelled with a range.
HasEdge(a, b, range) ==
    \E k \in DOMAIN petgraph_edges :
        /\ petgraph_edges[k].source \in DOMAIN petgraph_nodes
        /\ petgraph_edges[k].target \in DOMAIN petgraph_nodes
        /\ petgraph_nodes[petgraph_edges[k].source].name = a
        /\ petgraph_nodes[petgraph_edges[k].target].name = b
        /\ petgraph_edges[k].weight = range

C13_NoSelfEdges ==
    /\ \A k \in DOMAIN petgraph_edges :
          petgraph_edges[k].source # petgraph_edges[k].target
    /\ \A n \in PackageNames : \A r \in Ranges : ~HasEdge(n, n, r)

\* The edge loop, at a[x], has read the dependency of a[x] on a at the
\* selected version, after the dependency of a[x] on b made an edge.
C13_Witness ==
    /\ gpc = "edges"
    /\ cursor <= Len(order)
    /\ order[cursor] = Package("a", "x", None)
    /\ incompatibility.kind = "FromDependencyOf"
    /\ incompatibility.p1 = Package("a", "x", None)
    /\ incompatibility.p2 = Package("a", None, None)
    /\ selection[order[cursor]] \in incompatibility.v1
    /\ read = 2
    /\ Len(petgraph_edges) = 1

\* C14: for a selection that satisfies its invariants, the source and the
\* target of every edge are nodes that the node pass added, and looking up
\* the node of the source or of the target of an applicable dependency by
\* its name never fails.
C14_EdgeEndpointsExist ==
    /\ gresult # "panic"
    /\ \A k \in DOMAIN petgraph_edges :
          /\ petgraph_edges[k].source \in DOMAIN petgraph_nodes
          /\ petgraph_edges[k].target \in DOMAIN petgraph_nodes
    /\ ApplicableRead =>
          /\ inverse[incompatibility.p1.name] \in DOMAIN petgraph_nodes
          /\ inverse[incompatibility.p2.name] \in DOMAIN petgraph_nodes
          /\ petgraph_nodes[inverse[incompatibility.p1.name]].name = incompatibility.p1.name
          /\ petgraph_nodes[inverse[incompatibility.p2.name]].name = incompatibility.p2.name

\* The dependency of b on the extra-group a[x] was read: its target is
\* looked up by the name a, and the edge b -> a ends in the node of a.
C14_Witness ==
    /\ ApplicableRead
    /\ incompatibility.p1 = Package("b", None, None)
    /\ incompatibility.p2 = Package("a", "x", None)
    /\ HasEdge("b", "a", incompatibility.r2)

\* C17: the edges are those of the applicable dependencies read. A step
\* changes the edges only by reading, under the selected package P of the
\* outer loop, a dependency of P (P being the depending side) at versions
\* that contain the selected version of P on a package B, P and B not Root
\* and of different names; such a step leaves the edge name(P) -> name(B),
\* and a step that reads anything else (a dependency on P, a dependency of
\* other versions of P, another kind) leaves the edges as they were.
C17_Step ==
    /\ petgraph_edges' # petgraph_edges => (read' = read + 1 /\ ApplicableRead')
    /\ (read' = read + 1 /\ ApplicableRead') =>
          /\ HasEdge(incompatibility.p1.name, incompatibility.p2.name,
                     incompatibility.r2)'
          /\ Len(petgraph_edges') \in {Len(petgraph_edges), Len(petgraph_edges) + 1}
    /\ (read' = read + 1 /\ ~ApplicableRead') => petgraph_edges' = petgraph_edges

C17_EdgeSetCharacterised == [][C17_Step]_vars

\* Under b, the edge loop read the dependency of a, at its selected version,
\* on b: b is the depended-on side, and the graph has no edge yet.
C17_Witness ==
    /\ gpc = "edges"
    /\ cursor <= Len(order)
    /\ order[cursor] = Package("b", None, None)
    /\ incompatibility.kind = "FromDependencyOf"
    /\ incompatibility.p1 = Package("a", None, None)
    /\ incompatibility.p2 = Package("b", None, None)
    /\ selection[incompatibility.p1] \in incompatibility.v1
    /\ petgraph_edges = <<>>

\* The edges between the nodes of the two names of the incompatibility read
EdgesOfRead(edges, inc) ==
    { k \in DOMAIN edges :
        /\ edges[k].source = inverse[inc.p1.name]
        /\ edges[k].target = inverse[inc.p2.name] }

\* C18: the graph has at most one edge per ordered pair of nodes, and an
\* applicable dependency read for a pair that has an edge already replaces
\* the range of that edge with its own range, whatever the range was, and
\* changes no other edge; for a pair without an edge it adds the edge.
C18_Step ==
    /\ \A k, l \in DOMAIN petgraph_edges' :
          (petgraph_edges'[k].source = petgraph_edges'[l].source
             /\ petgraph_edges'[k].target = petgraph_edges'[l].target) => k = l
    /\ (read' = read + 1 /\ ApplicableRead') =>
          /\ \A k \in DOMAIN petgraph_edges :
                /\ k \in DOMAIN petgraph_edges'
                /\ petgraph_edges'[k] =
                     IF k \in EdgesOfRead(petgraph_edges, incompatibility')
                     THEN [petgraph_edges[k] EXCEPT !.weight = incompatibility'.r2]
                     ELSE petgraph_edges[k]
          /\ Cardinality(EdgesOfRead(petgraph_edges', incompatibility')) = 1
          /\ Len(petgraph_edges') =
                IF EdgesOfRead(petgraph_edges, incompatibility') = {}
                THEN Len(petgraph_edges) + 1 ELSE Len(petgraph_edges)

C18_LastRangeWins == [][C18_Step]_vars

\* The edges a -> b and b -> a were made under a and under b; then, under
\* a[x], the dependency of a[x] on b in {1, 2} was read: the edge a -> b, the
\* older of the two edges, has the range {1, 2}.
C18_Witness ==
    /\ ApplicableRead
    /\ incompatibility.p1 = Package("a", "x", None)
    /\ incompatibility.p2 = Package("b", None, None)
    /\ incompatibility.r2 = {1, 2}
    /\ Len(petgraph_edges) = 2
    /\ petgraph_edges[1] = [source |-> inverse["a"], target |-> inverse["b"],
                            weight |-> {1, 2}]
    /\ petgraph_edges[2].source = inverse["b"]

\* ---- hashes ----
\* The node of a name in the graph
NodeOf(name) == petgraph_nodes[inverse[name]]

\* The first version map, in order, that has hashes for the version
FirstWithHashes(version_maps) ==
    IF \E i \in DOMAIN version_maps : version_maps[i].some
    THEN version_maps[CHOOSE i \in DOMAIN version_maps :
                        /\ version_maps[i].some
                        /\ \A j \in 1..(i - 1) : ~version_maps[j].some]
    ELSE NoDigests

\* What the provider side supplies for a base package: for a registry
\* package the first version map of the Found response that has hashes, for
\* a URL package the Found metadata archive of the node's distribution
ProviderDigests(p) ==
    IF p.url = None
    THEN IF packages[p.name].present /\ packages[p.name].found
         THEN FirstWithHashes(packages[p.name].version_maps)
         ELSE NoDigests
    ELSE IF version_id(NodeOf(p.name)) \in DOMAIN distributions
         THEN SomeDigests(distributions[version_id(NodeOf(p.name))].hashes)
         ELSE NoDigests

\* The same digests, each as many times, in any order
SameDigests(l1, l2) ==
    \A d \in Digests :
        Cardinality({ i \in DOMAIN l1 : l1[i] = d })
            = Cardinality({ i \in DOMAIN l2 : l2[i] = d })

\* C19: in the graph that from_state returns, the hashes of a base package
\* are exactly the preference's list when the preference has a non-empty
\* list; otherwise (no preference, or an empty list) they are the digests
\* the provider side supplies, and there is no entry when it supplies none.
C19_HashPriority ==
    gresult = "ok" =>
        \A p \in BasePackages :
            IF preferences[p.name].some /\ preferences[p.name].digests # <<>>
            THEN hashes[p.name] = preferences[p.name]
            ELSE /\ hashes[p.name].some = ProviderDigests(p).some
                 /\ SameDigests(hashes[p.name].digests, ProviderDigests(p).digests)

\* A graph where a URL package whose URL was redirected has an empty list of
\* preferred digests and got the hashes of the metadata archive of the
\* redirected URL.
C19_Witness ==
    /\ gresult = "ok"
    /\ \E p \in BasePackages :
           /\ p.url # None
           /\ precise[p.url] # None
           /\ ~editables[p.name].editable
           /\ preferences[p.name] = SomeDigests(<<>>)
           /\ hashes[p.name] = SomeDigests(<<1, 2>>)

\* The digests are in ascending order
IsSorted(digests) ==
    \A i, j \in DOMAIN digests : i < j => digests[i] <= digests[j]

\* The hashes of the name were taken from the preferences
FromPreferences(name) ==
    preferences[name].some /\ preferences[name].digests # <<>>

\* C28: in the graph that from_state returns, a hash list taken from the
\* provider side is stored in ascending order, and a hash list taken from
\* the preferences is stored in the order the preferences give it, sorted
\* or not.
C28_ProviderHashesSorted ==
    gresult = "ok" =>
        \A p \in BasePackages :
            hashes[p.name].some =>
                IF FromPreferences(p.name)
                THEN hashes[p.name].digests = preferences[p.name].digests
                ELSE IsSorted(hashes[p.name].digests)

\* A graph where the hashes of a come from the preferences and are stored
\* unsorted, and those of b come unsorted from a version map and are stored
\* sorted.
C28_Witness ==
    /\ gresult = "ok"
    /\ FromPreferences("a")
    /\ hashes["a"].some
    /\ ~IsSorted(hashes["a"].digests)
    /\ ~FromPreferences("b")
    /\ ~IsSorted(packages["b"].version_maps[1].digests)
    /\ hashes["b"] = SomeDigests(<<1, 2>>)

\* ---- editables ----
\* C20: the node of a base package whose name is in `editables` is the
\* editable distribution, for a registry package and for a URL package,
\* whatever the pins, the URL, its redirect and Dist::from_url would give.
C20_EditableOverlay ==
    \A p \in BasePackages :
        (editables[p.name].editable /\ inverse[p.name] # 0 /\ gresult # "err")
            => NodeOf(p.name) = Dist_from_editable(p.name)

\* A graph with the editable node of a URL package whose URL Dist::from_url
\* rejects.
C20_Witness ==
    /\ gresult = "ok"
    /\ \E p \in BasePackages :
           /\ p.url # None
           /\ redirected(p.url, precise) \in bad_urls
           /\ editables[p.name].editable
           /\ NodeOf(p.name).kind = "editable"

(***************************************************************************)
(* Properties of ResolutionGraph::marker_tree                              *)
(***************************************************************************)

\* C15: the marker tree that marker_tree returns evaluates to true in the
\* marker environment it was given.
C15_MarkerProjectionSound ==
    mresult = "ok" => evaluate(And(conjuncts), marker_env)

\* A returned tree with a term for python_full_version, whose value is not
\* that of python_version, and a term for a string parameter.
C15_Witness ==
    /\ mresult = "ok"
    /\ get_version(marker_env, "python_full_version") = <<3, 8, 1>>
    /\ \E i \in DOMAIN conjuncts :
           conjuncts[i].l_value = MarkerEnvVersion("python_full_version")
    /\ \E i \in DOMAIN conjuncts :
           conjuncts[i].l_value.kind = "MarkerEnvString"

\* The operand that names a parameter, and the string of its value in the
\* environment
OperandOf(marker_param) ==
    IF marker_param.param = "Version"
    THEN MarkerEnvVersion(marker_param.v)
    ELSE MarkerEnvString(marker_param.v)

LiteralOf(marker_param) ==
    IF marker_param.param = "Version"
    THEN Version_to_string(marker_env.version[marker_param.v])
    ELSE marker_env.string[marker_param.v]

\* The conjuncts that are the term `parameter == "value in the environment"`
TermsOf(marker_param) ==
    { i \in DOMAIN conjuncts :
        /\ conjuncts[i].tree = "Expression"
        /\ conjuncts[i].l_value = OperandOf(marker_param)
        /\ conjuncts[i].operator = "=="
        /\ conjuncts[i].r_value = QuotedString(LiteralOf(marker_param)) }

\* C21: the returned conjunction has exactly one conjunct for every collected
\* parameter, of the form `parameter == "its value in the environment"`, and
\* no other conjunct; with no parameter collected it is the empty conjunction.
C21_OneConjunctPerParameter ==
    mresult = "ok" =>
        /\ \A marker_param \in seen_marker_values :
               Cardinality(TermsOf(marker_param)) = 1
        /\ \A i \in DOMAIN conjuncts :
               \E marker_param \in seen_marker_values : i \in TermsOf(marker_param)
        /\ Len(conjuncts) = Cardinality(seen_marker_values)

\* A returned conjunction where python_version, which occurs in the marker of
\* a node's requirement and in that of an editable's dependency, has its one
\* conjunct next to that of a string parameter.
C21_Witness ==
    /\ mresult = "ok"
    /\ \E n \in DOMAIN archives :
           \E i \in DOMAIN archives[n].requires_dist :
               archives[n].requires_dist[i].marker = MarkerOnVersion
    /\ manifest.editables = <<MarkerRequirement(MarkerOnVersion, TRUE)>>
    /\ Cardinality(TermsOf(MarkerParam_Version("python_version"))) = 1
    /\ TermsOf(MarkerParam_String("sys_platform")) # {}

\* The operands of the expressions of a marker, at any depth
RECURSIVE Operands(_)
Operands(marker_tree) ==
    IF marker_tree.tree = "Expression"
    THEN {marker_tree.l_value, marker_tree.r_value}
    ELSE UNION { Operands(marker_tree.exprs[i]) : i \in DOMAIN marker_tree.exprs }

\* The markers of the requires_dist entries of the nodes, of the direct
\* requirements and of the dependencies that the editables declare
MarkersRead ==
    UNION { { archives[n].requires_dist[i].marker :
                i \in DOMAIN archives[n].requires_dist } : n \in DOMAIN archives }
    \cup { manifest.requirements[i].marker : i \in DOMAIN manifest.requirements }
    \cup { manifest.editables[i].marker : i \in DOMAIN manifest.editables }

\* The environment parameters that occur in them
ParametersRead ==
    UNION { { IF o.kind = "MarkerEnvVersion" THEN MarkerParam_Version(o.v)
              ELSE MarkerParam_String(o.v) :
              o \in { q \in Operands(m) :
                        q.kind \in {"MarkerEnvVersion", "MarkerEnvString"} } } :
            m \in { k \in MarkersRead : k.tree # "None" } }

\* C22: when marker_tree returns, the collected set is exactly the set of
\* the environment parameters that occur, on either side and at any depth,
\* in the markers of the nodes' requires_dist, of the direct requirements and
\* of the editables' dependencies; quoted strings and extras add no member.
C22_CollectedParameters ==
    mresult = "ok" => seen_marker_values = ParametersRead

\* A return where the set holds a parameter from the right of an expression,
\* one from under an Or inside an And, and where a marker with an extra was
\* read.
C22_Witness ==
    /\ mresult = "ok"
    /\ MarkerNested \in MarkersRead
    /\ MarkerOnString \in MarkersRead
    /\ MarkerParam_Version("python_full_version") \in seen_marker_values
    /\ MarkerParam_String("sys_platform") \in seen_marker_values
    /\ Cardinality(seen_marker_values) = 4

(***************************************************************************)
(* Properties of ResolutionGraph::lock                                     *)
(***************************************************************************)

\* The edges that leave a node
OutgoingEdges(n) == { k \in DOMAIN petgraph_edges : petgraph_edges[k].source = n }

\* The lock has one distribution per node, in the order of the nodes, and
\* the dependencies of each are the targets of the edges that leave its
\* node, each once.
C23_Locked ==
    lresult = "ok" =>
        /\ Len(locked_dists) = Len(petgraph_nodes)
        /\ \A n \in DOMAIN petgraph_nodes :
               /\ locked_dists[n].dist = petgraph_nodes[n]
               /\ Range(locked_dists[n].dependencies)
                     = { petgraph_nodes[petgraph_edges[k].target] : k \in OutgoingEdges(n) }
               /\ Len(locked_dists[n].dependencies) = Cardinality(OutgoingEdges(n))

\* A step of lock leaves the graph as it was.
C23_Step ==
    (locked_dists' # locked_dists \/ lresult' # lresult) => UNCHANGED graphVars

\* C23: lock emits one locked distribution per node of the graph, in node
\* insertion order, whose dependencies are exactly the targets of the node's
\* outgoing edges, and it does not modify the graph.
C23_LockProjection == []C23_Locked /\ [][C23_Step]_vars

\* A lock of a graph with an edge from the first node to the second and none
\* back: the first distribution has the second as its dependency, the second
\* has none.
C23_Witness ==
    /\ lresult = "ok"
    /\ Len(petgraph_nodes) = 2
    /\ OutgoingEdges(1) # {}
    /\ OutgoingEdges(2) = {}
    /\ locked_dists[1].dependencies = <<petgraph_nodes[2]>>
    /\ locked_dists[2].dependencies = <<>>
====
